---- MODULE Spec2Model ----
(***************************************************************************)
(* A model of the peer data plane of vnt: the NAT profile (NatInfo), the   *)
(* handshake clock, the punch engine, the client packet handler, the       *)
(* route idle sweep and the TCP ip-proxy.  Each part has its own           *)
(* specification; the variables of the other parts are pinned to their     *)
(* initial values while one part runs.                                     *)
(***************************************************************************)
EXTENDS Integers, Sequences, FiniteSets, TLC

VARIABLES
    \* ---- NatInfo (channel/punch.rs)
    natIn,        \* the arguments of the last NatInfo::new call
    natInfo,      \* the NatInfo value it built
    natPc,        \* "args": NatInfo::new not yet run on natIn; "built": run
    \* ---- Handshake (handle/handshaker.rs)
    now,          \* the monotonic clock (Instant::now()), in seconds
    hsTime,       \* Handshake.time, the shared last-send instant
    hsPc,         \* per caller: position inside Handshake::send
    hsLast,       \* per caller: the value `last` it loaded
    hsStart,      \* per caller: the instant its current call began
    hsWire,       \* the instants at which a handshake request went on the wire
    hsLog,        \* the completed calls of Handshake::send, oldest first
    \* ---- a node: Context, RouteTable, Punch (channel/, handle/)
    cfg,          \* per node: the configuration its Context was built with
    rt,           \* per node: route_table, a set of [dst, key, metric, rtt]
    stale,        \* per node: the (dst, key) whose read time has run out
    portVec,      \* per node: Punch.port_vec, the shuffled ports
    portIndex,    \* per node and punch worker: Punch.port_index
    lastPunch,    \* what the last call of Punch::punch did
    \* ---- the client packet handler (handle/recv_data/client.rs)
    peerNat,      \* per node: peer_nat_info_map
    punchQ,       \* per node and punch worker: the queue of its sync_channel
    selfNat,      \* per node: nat_test.nat_info()
    lastHandle,   \* what the last call of ClientPacketHandler::handle did
    \* ---- the route idle sweep (handle/maintain/idle.rs)
    status,       \* per node: CurrentDeviceInfo.status
    errCalls,     \* per node: the error types VntCallback::error was called with
    lastIdle,     \* what the last call of idle_route0 found
    \* ---- the TCP ip-proxy (ip_proxy/tcp_proxy.rs)
    tcp_map,      \* tcp_map: src_fd to ProxyValue
    mapping,      \* mapping: dest_fd to src_fd
    sock,         \* per descriptor: the TCP socket behind it
    px,           \* where the event loop of tcp_proxy stands
    pxClosed,     \* the ProxyValue close took out of tcp_map, if it has
    \* ---- the network between the nodes
    net,          \* the packets in flight
    opened,       \* per node: the peers its NAT lets in
    punchRounds,  \* per node: the calls of punch0 so far
    punched,      \* <<node, peer>>: punch_start has called Punch::punch
    \* ---- single calls looked at on their own
    finePhase,    \* one fine-range phase of Punch::punch: its peer and what it sent
    \* ---- the scheduler of node A and its maintenance chains
    sched,        \* the stop flag, and per periodic task where its chain stands
    gw,           \* the gateway watchdog of node A: its timers and what it has sent
    req,          \* one call of punch0: the device list, and what the call sent
    dom,          \* one call of domain_request0 beside the other writers of the cell
    sweep,        \* node A: what the broad phases for peer B sent since port_index last wrapped
    fineWin,      \* the fine-range window computed for one first port and range
    tcpProxy,     \* the TcpProxy of node A: its listener port and nat_map
    proxyCall     \* the last recv_handle or send_handle call, and the flows recv_handle was given

natVars == <<natIn, natInfo, natPc>>
hsVars == <<now, hsTime, hsPc, hsLast, hsStart, hsWire, hsLog>>
nodeVars == <<cfg, rt, stale>>
punchVars == <<portVec, portIndex, lastPunch>>
handlerVars == <<peerNat, punchQ, selfNat, lastHandle>>
idleVars == <<status, errCalls, lastIdle>>
proxyVars == <<tcp_map, mapping, sock, px, pxClosed>>
netVars == <<net, opened, punchRounds, punched>>
moreVars == <<finePhase, sched, gw, req, dom, sweep, fineWin, tcpProxy, proxyCall>>
vars == <<natVars, hsVars, nodeVars, punchVars, handlerVars, idleVars, proxyVars, netVars, moreVars>>

OthersNat == <<hsVars, nodeVars, punchVars, handlerVars, idleVars, proxyVars, netVars, moreVars>>
OthersHs == <<natVars, nodeVars, punchVars, handlerVars, idleVars, proxyVars, netVars, moreVars>>
OthersPunch == <<natVars, hsVars, handlerVars, idleVars, proxyVars, netVars, moreVars>>
OthersHandler == <<natVars, hsVars, punchVars, idleVars, proxyVars, netVars, moreVars>>
OthersIdle == <<natVars, hsVars, punchVars, handlerVars, proxyVars, netVars, moreVars>>
OthersProxy == <<natVars, hsVars, nodeVars, punchVars, handlerVars, idleVars, netVars, moreVars>>
OthersS1 == <<natVars, hsVars, idleVars, proxyVars, moreVars>>

(***************************************************************************)
(* IPv4 addresses are their four octets; Ipv4Addr orders them octet by     *)
(* octet                                                                   *)
(***************************************************************************)
Ip(a, b, c, d) == <<a, b, c, d>>
Octet0(ip) == ip[1]
Octet1(ip) == ip[2]

\* a mutant of IpGt: the comparison is turned around
IpGt_Reversed(ip1, ip2) ==
    \E k \in 1..4 : ip1[k] < ip2[k] /\ \A m \in 1..(k - 1) : ip1[m] = ip2[m]

\* Ipv4Addr's Ord: ip1 > ip2
IpGt(ip1, ip2) ==
    \E k \in 1..4 : ip1[k] > ip2[k] /\ \A m \in 1..(k - 1) : ip1[m] = ip2[m]

is_unspecified(ip) == ip = Ip(0, 0, 0, 0)
is_broadcast(ip) == ip = Ip(255, 255, 255, 255)
is_loopback(ip) == Octet0(ip) = 127
is_multicast(ip) == Octet0(ip) >= 224 /\ Octet0(ip) <= 239
is_private(ip) ==
    \/ Octet0(ip) = 10
    \/ Octet0(ip) = 172 /\ Octet1(ip) >= 16 /\ Octet1(ip) <= 31
    \/ Octet0(ip) = 192 /\ Octet1(ip) = 168

\* Option<Ipv4Addr>::None
NoIp == <<>>

Range(s) == {s[i] : i \in 1..Len(s)}

(***************************************************************************)
(* NatInfo::new                                                            *)
(***************************************************************************)
\* a mutant of IsPublicIp: the private ranges are let through
IsPublicIp_NoPrivate(ip) ==
    /\ ~is_multicast(ip)
    /\ ~is_broadcast(ip)
    /\ ~is_unspecified(ip)
    /\ ~is_loopback(ip)

\* the closure of public_ips.retain in NatInfo::new
IsPublicIp(ip) ==
    /\ ~is_multicast(ip)
    /\ ~is_broadcast(ip)
    /\ ~is_unspecified(ip)
    /\ ~is_loopback(ip)
    /\ ~is_private(ip)

\* the nat_type NatInfo::new settles on once public_ips is filtered
ForcedNatType(public_ips, nat_type) ==
    IF Len(public_ips) > 1 THEN "Symmetric" ELSE nat_type

\* the arguments of NatInfo::new
NatArgs(ips, ports, range, local, v6, udp, tcp, type) ==
    [ public_ips |-> ips, public_ports |-> ports, public_port_range |-> range,
      local_ipv4 |-> local, ipv6 |-> v6, udp_ports |-> udp, tcp_port |-> tcp,
      nat_type |-> type ]

Ipv6Kinds == {"none", "multicast", "unspecified", "loopback", "global"}

NatInfo_new(in) ==
    LET ips == SelectSeq(in.public_ips, IsPublicIp)
        l4 == in.local_ipv4
        local == IF l4 # NoIp /\ (is_multicast(l4) \/ is_broadcast(l4)
                                  \/ is_unspecified(l4) \/ is_loopback(l4))
                 THEN NoIp ELSE l4
        v6 == IF in.ipv6 \in {"multicast", "unspecified", "loopback"}
              THEN "none" ELSE in.ipv6
    IN  [ public_ips |-> ips,
          public_ports |-> in.public_ports,
          public_port_range |-> in.public_port_range,
          local_ipv4 |-> local,
          ipv6 |-> v6,
          udp_ports |-> in.udp_ports,
          tcp_port |-> in.tcp_port,
          nat_type |-> ForcedNatType(ips, in.nat_type) ]

\* NatInfo::update_addr(index, ip, port)
update_addr(info, index, ip, port) ==
    LET ports == IF port # 0 /\ index < Len(info.public_ports)
                 THEN [info.public_ports EXCEPT ![index + 1] = port]
                 ELSE info.public_ports
        ips == IF IsPublicIp(ip) /\ ip \notin Range(info.public_ips)
               THEN Append(info.public_ips, ip)
               ELSE info.public_ips
    IN  [info EXCEPT !.public_ports = ports, !.public_ips = ips]

\* the addresses the NatInfo specification draws its inputs from: one of
\* each class the filter names, and three global ones
IpSamples ==
    { Ip(0, 0, 0, 0), Ip(127, 0, 0, 1), Ip(10, 26, 0, 2), Ip(172, 16, 0, 1),
      Ip(192, 168, 1, 1), Ip(224, 0, 0, 1), Ip(255, 255, 255, 255),
      Ip(1, 1, 1, 1), Ip(2, 2, 2, 2), Ip(172, 32, 0, 1) }

MaxIps == 3

SeqsUpTo(S, n) == UNION {[1..k -> S] : k \in 0..n}

NatInputs ==
    [ public_ips : SeqsUpTo(IpSamples, MaxIps),
      public_ports : {<<40000>>},
      public_port_range : {0},
      local_ipv4 : {NoIp, Ip(192, 168, 1, 1), Ip(127, 0, 0, 1)},
      ipv6 : {"none"},
      udp_ports : {<<40000>>},
      tcp_port : {0},
      nat_type : {"Cone", "Symmetric"} ]

NatPinnedIn ==
    [ public_ips |-> <<>>, public_ports |-> <<40000>>, public_port_range |-> 0,
      local_ipv4 |-> NoIp, ipv6 |-> "none", udp_ports |-> <<40000>>,
      tcp_port |-> 0, nat_type |-> "Cone" ]

NatPinned == natIn = NatPinnedIn /\ natInfo = NatPinnedIn /\ natPc = "args"


(***************************************************************************)
(* A node: its Context configuration and its route table                   *)
(***************************************************************************)
\* scenario S1: A is 10.26.0.2 behind 1.1.1.1:40000, B is 10.26.0.3 behind
\* 2.2.2.2:50000, C is a third peer
NodeA == Ip(10, 26, 0, 2)
NodeB == Ip(10, 26, 0, 3)
NodeC == Ip(10, 26, 0, 4)
Nodes == {NodeA, NodeB}
GatewayIp == Ip(10, 26, 0, 1)
ServerIp == Ip(3, 3, 3, 3)

Addr4(ip, port) == [fam |-> 4, ip |-> ip, port |-> port]
\* the one IPv6 address a peer may have; all of it the model keeps is the port
Addr6(port) == [fam |-> 6, ip |-> Ip(0, 0, 0, 0), port |-> port]
ServerAddr == Addr4(ServerIp, 29872)

\* RouteKey {index, addr, is_tcp}
RouteKey(index, addr, is_tcp) == [index |-> index, addr |-> addr, is_tcp |-> is_tcp]
ServerKey == RouteKey(0, ServerAddr, FALSE)

\* Route::from(route_key, metric, rt); a negative rt is "not yet measured"
Route(dst, key, metric, rtt) == [dst |-> dst, key |-> key, metric |-> metric, rtt |-> rtt]
DEFAULT_RT == 0 - 1
RouteFromDefaultRt(dst, key, metric) == Route(dst, key, metric, DEFAULT_RT)

\* route_table.need_punch(dst): no direct route that is known and fresh
need_punch(n, dst) ==
    ~\E r \in rt[n] : r.dst = dst /\ r.metric = 1 /\ <<dst, r.key>> \notin stale[n]

\* route_table.add_route_if_absent(dst, route): only when the key is missing
add_route_if_absent(table, route) ==
    IF \E r \in table : r.dst = route.dst /\ r.key = route.key
    THEN table
    ELSE table \cup {route}

\* route_table.add_route(dst, route): insert, or update metric and rtt
add_route(table, route) ==
    {r \in table : ~(r.dst = route.dst /\ r.key = route.key)} \cup {route}

\* route_table.remove_route(dst, key): exactly that route
remove_route(table, dst, key) ==
    {r \in table : ~(r.dst = dst /\ r.key = key)}

BroadcastIp == Ip(10, 26, 0, 255)

\* what a node is configured with, and the addresses of its
\* CurrentDeviceInfo; ip_proxy is ip_proxy_map being Some
DefaultCfg(ip) ==
    [ virtual_ip |-> ip, virtual_gateway |-> GatewayIp, broadcast_ip |-> BroadcastIp,
      channel_num |-> 1, is_cone |-> TRUE, relay_only |-> FALSE, is_tcp |-> FALSE,
      punch_model |-> "IPv4", ip_proxy |-> TRUE ]

NodePinned ==
    /\ cfg = [n \in Nodes |-> DefaultCfg(n)]
    /\ rt = [n \in Nodes |-> {}]
    /\ stale = [n \in Nodes |-> {}]

(***************************************************************************)
(* Handshake::send                                                         *)
(***************************************************************************)
HsCallers == {1, 2}
MaxTime == 7
MaxCalls == 3
\* Duration::from_secs(3) in Handshake::send
HS_INTERVAL == 3
\* Duration::from_secs(60) in Handshake::new
HS_INITIAL_AGE == 60

HsPinned ==
    /\ now = 0
    /\ hsTime = 0 - HS_INITIAL_AGE
    /\ hsPc = [t \in HsCallers |-> "idle"]
    /\ hsLast = [t \in HsCallers |-> 0]
    /\ hsStart = [t \in HsCallers |-> 0]
    /\ hsWire = <<>>
    /\ hsLog = <<>>

(***************************************************************************)
(* The punch engine: Punch::punch and Punch::punch_symmetric               *)
(***************************************************************************)
\* the four punch workers, each with its own clone of Punch
Workers == {"sym_self", "sym_peer", "cone_self", "cone_peer"}

\* PunchSender::send picks the queue, and so the worker, by NAT type and role
WorkerFor(src_peer, nat_type) ==
    IF nat_type = "Symmetric"
    THEN (IF src_peer THEN "sym_peer" ELSE "sym_self")
    ELSE (IF src_peer THEN "cone_peer" ELSE "cone_self")

\* the port space, 1..=65535 in the code, and the packet budgets max_k1 = 60
\* and max_k2 in 600..800 of Punch::punch, all scaled down together
NumPorts == 4
max_k1 == 3
max_k2_lo == 2
max_k2_span == 1
Max_k2s == max_k2_lo..(max_k2_lo + max_k2_span)

\* context.try_send_all: every main channel at once
AllChannels == 0 - 1
UdpSend(chan, addr) == [chan |-> chan, addr |-> addr]

\* port_index.get(id), absent as NoIndex
NoIndex == 0 - 1
IndexOf(pi, id) == IF id \in DOMAIN pi THEN pi[id] ELSE NoIndex
IndexPut(pi, id, v) == [x \in DOMAIN pi \cup {id} |-> IF x = id THEN v ELSE pi[x]]

RECURSIVE Concat(_)
Concat(ss) == IF ss = <<>> THEN <<>> ELSE Head(ss) \o Concat(Tail(ss))

Min(a, b) == IF a < b THEN a ELSE b
InjSeqs(S, k) == {f \in [1..k -> S] : \A i, j \in 1..k : i # j => f[i] # f[j]}

\* NatInfo::local_udp_ipv4addr(index) and local_udp_ipv6addr(index), as the
\* list of Some() results over index in 0..channel_num
LocalV4Sends(c, nat) ==
    IF Len(nat.udp_ports) = 0 \/ nat.local_ipv4 = NoIp THEN <<>>
    ELSE [i \in 1..c.channel_num |->
            UdpSend(i - 1, Addr4(nat.local_ipv4,
                                 nat.udp_ports[((i - 1) % Len(nat.udp_ports)) + 1]))]

LocalV6Sends(c, nat) ==
    IF Len(nat.udp_ports) = 0 \/ nat.ipv6 = "none" THEN <<>>
    ELSE [i \in 1..c.channel_num |->
            UdpSend(i - 1, Addr6(nat.udp_ports[((i - 1) % Len(nat.udp_ports)) + 1]))]

\* the connect_tcp attempts of Punch::punch, in order
\* a mutant of TcpCandidates: the public address is tried first
TcpCandidates_PublicFirst(c, nat) ==
    IF c.is_tcp /\ nat.tcp_port # 0
    THEN (IF nat.nat_type = "Cone" /\ Len(nat.public_ips) = 1
          THEN <<Addr4(nat.public_ips[1], nat.tcp_port)>> ELSE <<>>)
         \o (IF nat.ipv6 # "none" THEN <<Addr6(nat.tcp_port)>> ELSE <<>>)
         \o (IF nat.local_ipv4 # NoIp
             THEN <<Addr4(nat.local_ipv4, nat.tcp_port)>> ELSE <<>>)
    ELSE <<>>

TcpCandidates(c, nat) ==
    IF c.is_tcp /\ nat.tcp_port # 0
    THEN (IF nat.ipv6 # "none" THEN <<Addr6(nat.tcp_port)>> ELSE <<>>)
         \o (IF nat.local_ipv4 # NoIp
             THEN <<Addr4(nat.local_ipv4, nat.tcp_port)>> ELSE <<>>)
         \o (IF nat.nat_type = "Cone" /\ Len(nat.public_ips) = 1
             THEN <<Addr4(nat.public_ips[1], nat.tcp_port)>> ELSE <<>>)
    ELSE <<>>

\* the NatType::Cone arm: the sends of the loop 'a, in order
\* a mutant of ConeSends: a Symmetric node does not stop after the first
\* port
ConeSends_Spray(c, nat) ==
    LET rounds == Min(Len(nat.public_ports), c.channel_num)
        one(index) ==
            LET port == nat.public_ports[index + 1]
                hit == SelectSeq(nat.public_ips,
                                 LAMBDA ip : ~(port = 0 \/ is_unspecified(ip)))
            IN  [j \in 1..Len(hit) |->
                    UdpSend(IF c.is_cone THEN index ELSE AllChannels,
                            Addr4(hit[j], port))]
    IN  Concat([i \in 1..rounds |-> one(i - 1)])

ConeSends(c, nat) ==
    LET rounds == Min(Len(nat.public_ports), c.channel_num)
        used == IF c.is_cone THEN rounds ELSE Min(rounds, 1)
        one(index) ==
            LET port == nat.public_ports[index + 1]
                hit == SelectSeq(nat.public_ips,
                                 LAMBDA ip : ~(port = 0 \/ is_unspecified(ip)))
            IN  [j \in 1..Len(hit) |->
                    UdpSend(IF c.is_cone THEN index ELSE AllChannels,
                            Addr4(hit[j], port))]
    IN  Concat([i \in 1..used |-> one(i - 1)])

\* a mutant of punch_symmetric: the pair that brings the count to max is
\* sent to before the return
punch_symmetric_Inclusive(ports, ips, max, failAt) ==
    LET m == Len(ips)
        pairs == Concat([i \in 1..Len(ports) |->
                            [j \in 1..m |-> UdpSend(0, Addr4(ips[j], ports[i]))]])
        total == Len(pairs)
        cut == total >= max
        sent == IF cut THEN max ELSE total
    IN  IF failAt > 0 /\ failAt <= sent
        THEN [sends |-> SubSeq(pairs, 1, failAt), err |-> TRUE, ret |-> 0]
        ELSE [sends |-> SubSeq(pairs, 1, sent), err |-> FALSE,
              ret |-> IF cut THEN (max - 1) \div m ELSE Len(ports)]

\* a mutant of punch_symmetric: at the cut it returns the index after the
\* port it stopped in
punch_symmetric_PastCut(ports, ips, max, failAt) ==
    LET m == Len(ips)
        pairs == Concat([i \in 1..Len(ports) |->
                            [j \in 1..m |-> UdpSend(0, Addr4(ips[j], ports[i]))]])
        total == Len(pairs)
        cut == total >= max
        sent == IF cut THEN max - 1 ELSE total
    IN  IF failAt > 0 /\ failAt <= sent
        THEN [sends |-> SubSeq(pairs, 1, failAt), err |-> TRUE, ret |-> 0]
        ELSE [sends |-> SubSeq(pairs, 1, sent), err |-> FALSE,
              ret |-> IF cut THEN (max - 1) \div m + 1 ELSE Len(ports)]

\* Punch::punch_symmetric(ports, buf, ips, max) with the send number failAt
\* failing (0: none fails): what it sent and what it returned
punch_symmetric(ports, ips, max, failAt) ==
    LET m == Len(ips)
        pairs == Concat([i \in 1..Len(ports) |->
                            [j \in 1..m |-> UdpSend(0, Addr4(ips[j], ports[i]))]])
        total == Len(pairs)
        cut == total >= max
        sent == IF cut THEN max - 1 ELSE total
    IN  IF failAt > 0 /\ failAt <= sent
        THEN [sends |-> SubSeq(pairs, 1, failAt), err |-> TRUE, ret |-> 0]
        ELSE [sends |-> SubSeq(pairs, 1, sent), err |-> FALSE,
              ret |-> IF cut THEN (max - 1) \div m ELSE Len(ports)]

\* the number of sends punch_symmetric can make, the range of failAt
SymmetricBudget(ports, ips, max) ==
    Len(punch_symmetric(ports, ips, max, 0).sends)

\* the fine-range window of the NatType::Symmetric arm over ports of pmax
\* values: min_port, max_port and the slice length k as the code computes
\* them; `under` is max_port - min_port going below zero
FineWindowOf(port, range, pmax, k1) ==
    LET min_port == IF port > range THEN port - range ELSE 1
        max_port == IF port + range > pmax THEN pmax ELSE port + range
        under == max_port < min_port
        span == (max_port - min_port + 1) % (pmax + 1)
    IN  [ min_port |-> min_port, max_port |-> max_port, under |-> under,
          k |-> IF span > k1 THEN k1 ELSE span,
          nums |-> (min_port..(max_port - 1)) \cup {max_port} ]

FineWindow(port, range, pmax) == FineWindowOf(port, range, pmax, max_k1)

\* the slices &nums[..k] the shuffle of the fine-range phase can leave: k
\* different ports of the window, or nothing when the phase does not send
FineDraws(nat) ==
    LET port == IF Len(nat.public_ports) > 0 THEN nat.public_ports[1] ELSE 0
        win == FineWindow(port, nat.public_port_range, NumPorts)
    IN  IF nat.public_port_range < max_k1 * 3 /\ ~win.under
        THEN InjSeqs(win.nums, win.k)
        ELSE {<<>>}

PunchRecord(nat, arm, n, w, id, gate, tcp, udp, result, before, after) ==
    [ nat |-> nat, arm |-> arm, node |-> n, worker |-> w, peer |-> id,
      gate |-> gate, tcp |-> tcp, udp |-> udp, result |-> result,
      before |-> before, after |-> after,
      fine |-> <<>>, broad |-> <<>>, max_k2 |-> 0 ]

NoPunch ==
    PunchRecord(<<>>, "none", NodeA, "cone_self", NodeA, FALSE, <<>>, <<>>, "none",
                NoIndex, NoIndex)

\* a mutant of IndexWrap: the index is stored as it came out
IndexWrap_Never(index, len) == index

\* `if index >= self.port_vec.len() { index = 0; }`
IndexWrap(index, len) == IF index >= len THEN 0 ELSE index

\* the NatType::Symmetric arm after the local sends `udp0`; the record
\* keeps the NAT profile the call was given and the arm it returned from,
\* what each of the two phases sent, and the max_k2 that was drawn
PunchSymmetric(n, w, id, nat, tcp, udp0) ==
    LET pi == portIndex[n][w]
        before == IndexOf(pi, id)
        port == IF Len(nat.public_ports) > 0 THEN nat.public_ports[1] ELSE 0
        fineOn == nat.public_port_range < max_k1 * 3
        win == FineWindow(port, nat.public_port_range, NumPorts)
        start == IF before = NoIndex THEN 0 ELSE before
    IN  \E max_k2 \in Max_k2s :
        \E fine \in FineDraws(nat) :
        \E fail1 \in 0..SymmetricBudget(fine, nat.public_ips, max_k1) :
          LET r1 == punch_symmetric(fine, nat.public_ips, max_k1, fail1)
              end == Min(start + max_k2, Len(portVec[n]))
              slice == SubSeq(portVec[n], start + 1, end)
          IN  IF fineOn /\ win.under
              THEN \* max_port - min_port + 1 overflows: a panic in a debug
                   \* build; a release build wraps to k = 0 and goes on
                   \/ /\ lastPunch' = PunchRecord(nat, "symmetric", n, w, id, TRUE, tcp, udp0,
                                                  "Panic", before, before)
                      /\ portIndex' = portIndex
                   \/ \E fail2 \in 0..SymmetricBudget(slice, nat.public_ips, max_k2) :
                        LET r2 == punch_symmetric(slice, nat.public_ips, max_k2, fail2)
                            raw == start + r2.ret
                            index == IndexWrap(raw, Len(portVec[n]))
                            after == IF r2.err THEN start ELSE index
                        IN  /\ lastPunch' = [PunchRecord(nat, "symmetric", n, w, id, TRUE, tcp,
                                  udp0 \o r2.sends,
                                  IF r2.err THEN "Err" ELSE "Ok", before, after)
                                  EXCEPT !.broad = r2.sends, !.max_k2 = max_k2]
                            /\ portIndex' = [portIndex EXCEPT
                                               ![n][w] = IndexPut(pi, id, after)]
              ELSE IF r1.err
              THEN /\ lastPunch' = [PunchRecord(nat, "symmetric", n, w, id, TRUE, tcp,
                                      udp0 \o r1.sends, "Err", before, before)
                                      EXCEPT !.fine = r1.sends]
                   /\ portIndex' = portIndex
              ELSE \E fail2 \in 0..SymmetricBudget(slice, nat.public_ips, max_k2) :
                     LET r2 == punch_symmetric(slice, nat.public_ips, max_k2, fail2)
                         raw == start + r2.ret
                         index == IndexWrap(raw, Len(portVec[n]))
                         after == IF r2.err THEN start ELSE index
                     IN  /\ lastPunch' = [PunchRecord(nat, "symmetric", n, w, id, TRUE, tcp,
                               udp0 \o r1.sends \o r2.sends,
                               IF r2.err THEN "Err" ELSE "Ok", before, after)
                               EXCEPT !.fine = r1.sends, !.broad = r2.sends,
                                      !.max_k2 = max_k2]
                         /\ portIndex' = [portIndex EXCEPT
                                            ![n][w] = IndexPut(pi, id, after)]

\* the NatType::Cone arm after the local sends `udp0`
PunchCone(n, w, id, nat, tcp, udp0) ==
    LET targets == ConeSends(cfg[n], nat)
        before == IndexOf(portIndex[n][w], id)
    IN  \E failAt \in 0..(IF cfg[n].is_cone THEN Len(targets) ELSE 0) :
          /\ lastPunch' = PunchRecord(nat, "cone", n, w, id, TRUE, tcp,
                 udp0 \o (IF failAt > 0 THEN SubSeq(targets, 1, failAt) ELSE targets),
                 IF failAt > 0 THEN "Err" ELSE "Ok", before, before)
          /\ portIndex' = portIndex

\* a mutant of PunchGate: the test is turned around
PunchGate_Negated(n, id) == need_punch(n, id)

\* `if !self.context.route_table.need_punch(&id) { return Ok(()) }`
PunchGate(n, id) == ~need_punch(n, id)

\* Punch::punch(buf, id, nat_info) on worker w of node n
Punch(n, w, id, nat) ==
    LET c == cfg[n]
        before == IndexOf(portIndex[n][w], id)
        cands == TcpCandidates(c, nat)
        v4 == LocalV4Sends(c, nat)
        v6 == IF c.punch_model # "IPv4" THEN LocalV6Sends(c, nat) ELSE <<>>
    IN  IF PunchGate(n, id)
        THEN /\ lastPunch' = PunchRecord(nat, "gate", n, w, id, FALSE, <<>>, <<>>, "Ok",
                                         before, before)
             /\ portIndex' = portIndex
        ELSE \E tcpWin \in 0..Len(cands) :
             IF tcpWin > 0
             THEN \* connect_tcp returned true: the socket is handed over
                  /\ lastPunch' = PunchRecord(nat, "tcp", n, w, id, TRUE,
                         SubSeq(cands, 1, tcpWin), <<>>, "Ok", before, before)
                  /\ portIndex' = portIndex
             ELSE \E v6Win \in 0..(IF c.punch_model = "IPv6" THEN Len(v6) ELSE 0) :
                  IF v6Win > 0
                  THEN \* an IPv6 send went through under PunchModel::IPv6
                       /\ lastPunch' = PunchRecord(nat, "ipv6", n, w, id, TRUE, cands,
                              v4 \o SubSeq(v6, 1, v6Win), "Ok", before, before)
                       /\ portIndex' = portIndex
                  ELSE IF nat.nat_type = "Symmetric"
                       THEN PunchSymmetric(n, w, id, nat, cands, v4 \o v6)
                       ELSE PunchCone(n, w, id, nat, cands, v4 \o v6)

\* two of the orders port_vec.shuffle can leave: ascending and descending
PortAscending == [i \in 1..NumPorts |-> i]
PortDescending == [i \in 1..NumPorts |-> NumPorts + 1 - i]

PunchPinned ==
    /\ portVec = [n \in Nodes |-> PortAscending]
    /\ portIndex = [n \in Nodes |-> [w \in Workers |-> <<>>]]
    /\ lastPunch = NoPunch

(***************************************************************************)
(* The client packet handler: ClientPacketHandler::handle                  *)
(***************************************************************************)
\* the ttl byte holds two nibbles, so MAX_TTL is the largest of them
MAX_TTL == 15

\* sync_channel(1) in punch_channel
PUNCH_QUEUE_CAP == 1

\* an IPv4 packet inside an IpTurn payload; `valid` is IpV4Packet::new
\* accepting it, icmp is "None" when IcmpPacket::new rejects the payload
Inner(valid, protocol, src, dst, icmp) ==
    [ valid |-> valid, protocol |-> protocol, source_ip |-> src,
      destination_ip |-> dst, icmp |-> icmp ]
NoInner == Inner(FALSE, "None", NoIp, NoIp, "None")

\* a PunchInfo message; `valid` is parse_from_bytes accepting it
PunchInfo(valid, reply, ips, port, ports, range, local_ip, local_port, tcp, udp, v6, v6_port, type) ==
    [ valid |-> valid, reply |-> reply, public_ip_list |-> ips, public_port |-> port,
      public_ports |-> ports, public_port_range |-> range, local_ip |-> local_ip,
      local_port |-> local_port, tcp_port |-> tcp, udp_ports |-> udp, ipv6 |-> v6,
      ipv6_port |-> v6_port, nat_type |-> type ]
NoInfo ==
    PunchInfo(FALSE, FALSE, <<>>, 0, <<>>, 0, Ip(0, 0, 0, 0), 0, 0, <<>>, "none", 0, "Cone")

NoAddr == Addr4(NoIp, 0)

\* a NetPacket: the header fields the handler reads, and its payload as the
\* parsed bodies (pong time, inner IPv4 packet, PunchInfo, AddrPacket);
\* `sealed` is decrypt_ipv4 accepting the packet
NetPacket(protocol, transport, source, destination, ttl, source_ttl) ==
    [ protocol |-> protocol, transport |-> transport, source |-> source,
      destination |-> destination, ttl |-> ttl, source_ttl |-> source_ttl,
      time |-> 0, inner |-> NoInner, info |-> NoInfo, addr |-> NoAddr,
      sealed |-> TRUE ]

\* first_set_ttl(ttl): both nibbles
first_set_ttl(pkt, ttl) == [pkt EXCEPT !.ttl = ttl, !.source_ttl = ttl]

\* u8 arithmetic: the value modulo 2^8 and whether it left the range
U8Sub(a, b) == [overflow |-> b > a, value |-> (a - b + 256) % 256]
U8Add(a, b) == [overflow |-> a + b > 255, value |-> (a + b) % 256]

\* `net_packet.source_ttl() - net_packet.ttl() + 1` on u8
Metric(pkt) ==
    LET d == U8Sub(pkt.source_ttl, pkt.ttl)
        m == U8Add(d.value, 1)
    IN  [overflow |-> d.overflow \/ m.overflow, value |-> m.value]

\* `as u16` on a u32 port of a PunchInfo
AsU16(x) == x % 65536

\* what is outside the handler and decides its branches: whether
\* send_by_key succeeds, now_time() as u16, whether arithmetic overflow wraps
\* (release build) or panics (debug build), route.allow(real_dest), what
\* ip_proxy_map.recv_handle returns, whether device.write succeeds
Env(send_ok, now_time, wrap, allow, proxy, tun_ok) ==
    [ send_ok |-> send_ok, now_time |-> now_time, wrap |-> wrap, allow |-> allow,
      proxy |-> proxy, tun_ok |-> tun_ok ]

\* every call succeeds, and the packet is taken as it is
EnvOk == Env(TRUE, 3, TRUE, TRUE, "passed", TRUE)

\* one call of context.send_by_key and one of device.write
Sent(pkt, key, ok) == [pkt |-> pkt, key |-> key, ok |-> ok]
TunWrite(payload, ok) == [payload |-> payload, ok |-> ok]

\* the part of a node a handler call reads and writes: route_table, the
\* read times, peer_nat_info_map and the four punch queues
HandlerState(table, old, nats, queues) ==
    [table |-> table, stale |-> old, nats |-> nats, queues |-> queues]

\* what a handler call did: its io::Result (or a panic), the send_by_key
\* and device.write calls in order, and the state it left
Outcome(result, sends, tun, st) ==
    [result |-> result, sends |-> sends, tun |-> tun, st |-> st]

\* route_table.update_read_time(source, key): the route, if there, is fresh
update_read_time(st, source, key) ==
    [st EXCEPT !.stale = @ \ {<<source, key>>}]

\* a mutant of RelayOnly: relay-only mode is never seen
RelayOnly_Never(c) == FALSE

\* context.use_channel_type().is_only_relay()
RelayOnly(c) == c.relay_only

\* a mutant of Answer: source and destination are left as they came
Answer_Unswapped(pkt, transport, src, dst) ==
    [pkt EXCEPT !.transport = transport]

\* set_transport_protocol, set_source, set_destination on the packet
Answer(pkt, transport, src, dst) ==
    [pkt EXCEPT !.transport = transport, !.source = src, !.destination = dst]

\* ClientPacketHandler::control
control(c, st, pkt, key, e) ==
    LET metric == Metric(pkt)
        source == pkt.source
        direct == RouteFromDefaultRt(source, key, 1)
    IN  IF metric.overflow /\ ~e.wrap THEN Outcome("Panic", <<>>, <<>>, st)
        ELSE CASE pkt.transport = "Ping" ->
                 LET pong == first_set_ttl(Answer(pkt, "Pong", c.virtual_ip, source),
                                           MAX_TTL)
                     route == RouteFromDefaultRt(source, key, metric.value)
                 IN  IF ~e.send_ok
                     THEN Outcome("Err", <<Sent(pong, key, FALSE)>>, <<>>, st)
                     ELSE Outcome("Ok", <<Sent(pong, key, TRUE)>>, <<>>,
                              [st EXCEPT !.table = add_route_if_absent(@, route)])
               [] pkt.transport = "Pong" ->
                 IF e.now_time < pkt.time
                 THEN Outcome("Ok", <<>>, <<>>, st)
                 ELSE Outcome("Ok", <<>>, <<>>,
                          [st EXCEPT !.table =
                              add_route(@, Route(source, key, metric.value,
                                                 e.now_time - pkt.time))])
               [] pkt.transport = "PunchRequest" ->
                 IF RelayOnly(c)
                 THEN Outcome("Ok", <<>>, <<>>, st)
                 ELSE LET response ==
                              first_set_ttl(Answer(pkt, "PunchResponse", c.virtual_ip,
                                                   source), 1)
                      IN  IF ~e.send_ok
                          THEN Outcome("Err", <<Sent(response, key, FALSE)>>, <<>>, st)
                          ELSE Outcome("Ok", <<Sent(response, key, TRUE)>>, <<>>,
                                   [st EXCEPT !.table = add_route_if_absent(@, direct)])
               [] pkt.transport = "PunchResponse" ->
                 IF RelayOnly(c)
                 THEN Outcome("Ok", <<>>, <<>>, st)
                 ELSE Outcome("Ok", <<>>, <<>>,
                          [st EXCEPT !.table = add_route_if_absent(@, direct)])
               [] pkt.transport = "AddrRequest" ->
                 IF key.addr.fam = 4
                 THEN LET response ==
                              [NetPacket("Control", "AddrResponse", c.virtual_ip, source,
                                         MAX_TTL, MAX_TTL)
                                  EXCEPT !.addr = Addr4(key.addr.ip, key.addr.port)]
                      IN  Outcome(IF e.send_ok THEN "Ok" ELSE "Err",
                                  <<Sent(response, key, e.send_ok)>>, <<>>, st)
                 ELSE Outcome("Ok", <<>>, <<>>, st)
               [] pkt.transport = "AddrResponse" -> Outcome("Ok", <<>>, <<>>, st)
               \* ControlPacket::new rejects the packet
               [] OTHER -> Outcome("Err", <<>>, <<>>, st)

\* the EchoReply ip_turn makes of an EchoRequest, in place
EchoReply(pkt) ==
    LET swapped == Answer(pkt, pkt.transport, pkt.destination, pkt.source)
    IN  [swapped EXCEPT !.inner.icmp = "EchoReply",
                        !.inner.source_ip = pkt.destination,
                        !.inner.destination_ip = pkt.source]

\* a mutant of IsForeign: no inner destination is taken for an external one
IsForeign_Never(c, real_dest, destination) == FALSE

\* lines 133-138 of ip_turn: the inner destination is another address than
\* the overlay destination and none of broadcast, multicast, the subnet
\* broadcast and unspecified
IsForeign(c, real_dest, destination) ==
    /\ real_dest # destination
    /\ ~(\/ is_broadcast(real_dest)
         \/ is_multicast(real_dest)
         \/ real_dest = c.broadcast_ip
         \/ is_unspecified(real_dest))

\* ClientPacketHandler::ip_turn
ip_turn(c, st, pkt, key, e) ==
    LET destination == pkt.destination
        ipv4 == pkt.inner
        real_dest == ipv4.destination_ip
        to_tun == Outcome(IF e.tun_ok THEN "Ok" ELSE "Err", <<>>,
                          <<TunWrite(ipv4, e.tun_ok)>>, st)
        foreign == IsForeign(c, real_dest, destination)
        rest == IF foreign
                THEN IF ~e.allow THEN Outcome("Ok", <<>>, <<>>, st)
                     ELSE IF c.ip_proxy /\ e.proxy = "taken"
                     THEN Outcome("Ok", <<>>, <<>>, st)
                     ELSE IF c.ip_proxy /\ e.proxy = "err"
                     THEN Outcome("Err", <<>>, <<>>, st)
                     ELSE to_tun
                ELSE to_tun
    IN  IF pkt.transport = "Ipv4"
        THEN IF ~ipv4.valid THEN Outcome("Err", <<>>, <<>>, st)
             ELSE IF ipv4.protocol = "Icmp" /\ ipv4.destination_ip = destination
             THEN IF ipv4.icmp = "None" THEN Outcome("Err", <<>>, <<>>, st)
                  ELSE IF ipv4.icmp = "EchoRequest"
                  THEN Outcome(IF e.send_ok THEN "Ok" ELSE "Err",
                               <<Sent(EchoReply(pkt), key, e.send_ok)>>, <<>>, st)
                  ELSE rest
             ELSE rest
        \* Ipv4Broadcast and Unknown
        ELSE Outcome("Ok", <<>>, <<>>, st)

\* the NatInfo::new arguments other_turn takes out of a PunchInfo
NatArgsOfInfo(info) ==
    LET ports == IF info.public_ports = <<>> THEN <<info.public_port>>
                 ELSE info.public_ports
        udp == IF info.udp_ports = <<>> THEN <<info.local_port>> ELSE info.udp_ports
    IN  [ public_ips |-> info.public_ip_list,
          public_ports |-> [i \in 1..Len(ports) |-> AsU16(ports[i])],
          public_port_range |-> AsU16(info.public_port_range),
          local_ipv4 |-> info.local_ip,
          ipv6 |-> info.ipv6,
          udp_ports |-> [i \in 1..Len(udp) |-> AsU16(udp[i])],
          tcp_port |-> AsU16(info.tcp_port),
          nat_type |-> info.nat_type ]

\* the PunchInfo other_turn and punch_packet make of the node's own NatInfo
InfoOfNat(nat, reply) ==
    PunchInfo(TRUE, reply, nat.public_ips,
              IF nat.public_ports = <<>> THEN 0 ELSE nat.public_ports[1],
              nat.public_ports, nat.public_port_range,
              IF nat.local_ipv4 = NoIp THEN Ip(0, 0, 0, 0) ELSE nat.local_ipv4,
              nat.udp_ports[1], nat.tcp_port, nat.udp_ports, nat.ipv6,
              IF nat.ipv6 = "none" THEN 0 ELSE nat.udp_ports[1], nat.nat_type)

\* a mutant of PunchSender_send: the queue is always full
PunchSender_send_Full(queues, src_peer, ip, info) == [ok |-> FALSE, queues |-> queues]

\* a mutant of PunchSender_send: the result of try_send is not looked at
PunchSender_send_Deaf(queues, src_peer, ip, info) ==
    LET w == WorkerFor(src_peer, info.nat_type)
    IN  [ok |-> TRUE,
         queues |-> IF Len(queues[w]) >= PUNCH_QUEUE_CAP THEN queues
                    ELSE [queues EXCEPT ![w] = Append(@, [ip |-> ip, nat |-> info])]]

\* a mutant of PunchSender_send: a full queue gives up its message for the
\* new one
PunchSender_send_Newest(queues, src_peer, ip, info) ==
    LET w == WorkerFor(src_peer, info.nat_type)
    IN  IF Len(queues[w]) >= PUNCH_QUEUE_CAP
        THEN [ok |-> FALSE,
              queues |-> [queues EXCEPT ![w] = <<[ip |-> ip, nat |-> info]>>]]
        ELSE [ok |-> TRUE,
              queues |-> [queues EXCEPT ![w] = Append(@, [ip |-> ip, nat |-> info])]]

\* PunchSender::send(src_peer, ip, info) on the queues: try_send on the
\* queue the NAT type and the role pick
PunchSender_send(queues, src_peer, ip, info) ==
    LET w == WorkerFor(src_peer, info.nat_type)
    IN  IF Len(queues[w]) >= PUNCH_QUEUE_CAP
        THEN [ok |-> FALSE, queues |-> queues]
        ELSE [ok |-> TRUE,
              queues |-> [queues EXCEPT ![w] = Append(@, [ip |-> ip, nat |-> info])]]

\* a mutant of WantsReply: every PunchInfo is answered
WantsReply_Always(info) == TRUE

\* `if !punch_info.reply` in other_turn
WantsReply(info) == ~info.reply

\* ClientPacketHandler::other_turn; `me` is nat_test.nat_info()
other_turn(c, st, pkt, key, e, me) ==
    LET source == pkt.source
        punch_info == pkt.info
        peer_nat_info == NatInfo_new(NatArgsOfInfo(punch_info))
        st1 == [st EXCEPT !.nats = IndexPut(@, source, peer_nat_info)]
    IN  IF RelayOnly(c) THEN Outcome("Ok", <<>>, <<>>, st)
        ELSE IF pkt.transport # "Punch" THEN Outcome("Ok", <<>>, <<>>, st)
        ELSE IF ~punch_info.valid THEN Outcome("Err", <<>>, <<>>, st)
        ELSE IF WantsReply(punch_info)
        THEN IF me.udp_ports = <<>>
             THEN \* nat_info.udp_ports[0] is out of bounds
                  Outcome("Panic", <<>>, <<>>, st1)
             ELSE LET punch_packet ==
                          [NetPacket("OtherTurn", "Punch", c.virtual_ip, source,
                                     MAX_TTL, MAX_TTL)
                              EXCEPT !.info = InfoOfNat(me, TRUE)]
                      q == PunchSender_send(st1.queues, TRUE, source, peer_nat_info)
                      st2 == [st1 EXCEPT !.queues = q.queues]
                  IN  IF q.ok
                      THEN Outcome(IF e.send_ok THEN "Ok" ELSE "Err",
                                   <<Sent(punch_packet, key, e.send_ok)>>, <<>>, st2)
                      ELSE Outcome("Ok", <<>>, <<>>, st2)
        ELSE Outcome("Ok", <<>>, <<>>,
                 [st1 EXCEPT !.queues =
                     PunchSender_send(@, FALSE, source, peer_nat_info).queues])

\* a mutant of handle: the read time is stamped before the packet is opened
handle_ReadTimeFirst(c, st, net_packet, route_key, e, me) ==
    LET st1 == update_read_time(st, net_packet.source, route_key)
    IN  IF ~net_packet.sealed THEN Outcome("Err", <<>>, <<>>, st1)
        ELSE CASE net_packet.protocol = "Control" ->
                      control(c, st1, net_packet, route_key, e)
               [] net_packet.protocol = "IpTurn" ->
                      ip_turn(c, st1, net_packet, route_key, e)
               [] net_packet.protocol = "OtherTurn" ->
                      other_turn(c, st1, net_packet, route_key, e, me)
               [] OTHER -> Outcome("Ok", <<>>, <<>>, st1)

\* ClientPacketHandler::handle
handle(c, st, net_packet, route_key, e, me) ==
    IF ~net_packet.sealed THEN Outcome("Err", <<>>, <<>>, st)
    ELSE LET st1 == update_read_time(st, net_packet.source, route_key)
         IN  CASE net_packet.protocol = "Control" ->
                      control(c, st1, net_packet, route_key, e)
               [] net_packet.protocol = "IpTurn" ->
                      ip_turn(c, st1, net_packet, route_key, e)
               [] net_packet.protocol = "OtherTurn" ->
                      other_turn(c, st1, net_packet, route_key, e, me)
               \* Service, Error and Unknown
               [] OTHER -> Outcome("Ok", <<>>, <<>>, st1)

\* the handler's view of node n
HandlerStateOf(n) == HandlerState(rt[n], stale[n], peerNat[n], punchQ[n])

HandleRecord(n, pkt, key, e, before, o) ==
    [ node |-> n, pkt |-> pkt, key |-> key, env |-> e, result |-> o.result,
      sends |-> o.sends, tun |-> o.tun, before |-> before, after |-> o.st ]
NoHandle ==
    [ node |-> NoIp, pkt |-> NetPacket("Unknown", "Unknown", NoIp, NoIp, 0, 0),
      key |-> ServerKey, env |-> Env(TRUE, 0, TRUE, TRUE, "passed", TRUE),
      result |-> "none", sends |-> <<>>, tun |-> <<>>,
      before |-> HandlerState({}, {}, <<>>, [w \in Workers |-> <<>>]),
      after |-> HandlerState({}, {}, <<>>, [w \in Workers |-> <<>>]) ]

\* the channel hands node n one packet of `inputs`, a set of
\* <<packet, route key, environment>>, and the handler runs on it
ClientHandle(n, inputs) ==
    \E in \in inputs :
        LET before == HandlerStateOf(n)
            o == handle(cfg[n], before, in[1], in[2], in[3], selfNat[n])
        IN  /\ rt' = [rt EXCEPT ![n] = o.st.table]
            /\ stale' = [stale EXCEPT ![n] = o.st.stale]
            /\ peerNat' = [peerNat EXCEPT ![n] = o.st.nats]
            /\ punchQ' = [punchQ EXCEPT ![n] = o.st.queues]
            /\ lastHandle' = HandleRecord(n, in[1], in[2], in[3], before, o)

SelfNatOf(ip, port) ==
    NatInfo_new(NatArgs(<<ip>>, <<port>>, 0, NoIp, "none", <<port>>, 0, "Cone"))

HandlerPinned ==
    /\ peerNat = [n \in Nodes |-> <<>>]
    /\ punchQ = [n \in Nodes |-> [w \in Workers |-> <<>>]]
    /\ selfNat = [n \in Nodes |-> SelfNatOf(Ip(1, 1, 1, 1), 40000)]
    /\ lastHandle = NoHandle

(***************************************************************************)
(* The route idle sweep: idle_route0                                       *)
(***************************************************************************)
\* Idle::next_idle at node n: Timeout(ip, route) for a route whose read time
\* has run out; with none such, Sleep(duration) till the next one runs out,
\* or None when the table is empty
IdleType(type, ip, route, duration) ==
    [type |-> type, ip |-> ip, route |-> route, duration |-> duration]
NoRoute == Route(NoIp, ServerKey, 0, DEFAULT_RT)

next_idle(n) ==
    LET late == {r \in rt[n] : <<r.dst, r.key>> \in stale[n]}
    IN  IF late # {} THEN {IdleType("Timeout", r.dst, r, 0) : r \in late}
        ELSE IF rt[n] # {} THEN {IdleType("Sleep", NoIp, NoRoute, 1000)}
        ELSE {IdleType("None", NoIp, NoRoute, 0)}

\* CurrentDeviceInfo::is_gateway(ip)
is_gateway(cur, ip) == cur.virtual_gateway = ip

\* handle::change_status(current_device, status)
change_status(cur, to) == [cur EXCEPT !.status = to]

\* current_device.load() at node n
CurrentDevice(n) ==
    [ virtual_ip |-> cfg[n].virtual_ip, virtual_gateway |-> cfg[n].virtual_gateway,
      status |-> status[n] ]

\* a mutant of GatewayTimedOut: every timeout is taken for the gateway's
GatewayTimedOut_Always(cur, ip) == TRUE

\* `if cur.is_gateway(&ip)` in idle_route0
GatewayTimedOut(cur, ip) == is_gateway(cur, ip)

IdleRecord(n, idle, delay, table, st, calls) ==
    [ node |-> n, idle |-> idle, delay |-> delay, table |-> table, status |-> st,
      calls |-> calls ]
NoIdle == IdleRecord(NoIp, IdleType("none", NoIp, NoRoute, 0), 0, {}, "Offline", <<>>)

\* idle_route0 at node n: one sweep, returning the delay to the next; the
\* record keeps the table, the status and the callbacks as they were before
IdleRoute0(n) ==
    \E idle \in next_idle(n) :
        LET cur == CurrentDevice(n)
            before(delay) == IdleRecord(n, idle, delay, rt[n], status[n], errCalls[n])
        IN  IF idle.type = "Timeout"
            THEN /\ rt' = [rt EXCEPT ![n] = remove_route(@, idle.ip, idle.route.key)]
                 /\ stale' = [stale EXCEPT ![n] = @ \ {<<idle.ip, idle.route.key>>}]
                 /\ IF GatewayTimedOut(cur, idle.ip)
                    THEN /\ status' = [status EXCEPT
                                         ![n] = change_status(cur, "Connecting").status]
                         /\ errCalls' = [errCalls EXCEPT ![n] = Append(@, "Disconnect")]
                    ELSE UNCHANGED <<status, errCalls>>
                 /\ lastIdle' = before(100)
            ELSE /\ lastIdle' = before(IF idle.type = "Sleep" THEN idle.duration
                                       ELSE 3000)
                 /\ UNCHANGED <<rt, stale, status, errCalls>>

\* time passes at node n: the read time of one more route runs out
RouteAges(n) ==
    \E r \in rt[n] :
        /\ <<r.dst, r.key>> \notin stale[n]
        /\ stale' = [stale EXCEPT ![n] = @ \cup {<<r.dst, r.key>>}]

IdlePinned ==
    /\ status = [n \in Nodes |-> "Connected"]
    /\ errCalls = [n \in Nodes |-> <<>>]
    /\ lastIdle = NoIdle

(***************************************************************************)
(* The TCP ip-proxy: tcp_proxy, readable_handle, writable_handle, close    *)
(***************************************************************************)
\* the descriptors of the one proxied pair: the accepted stream and the
\* stream connected to the real destination (0 and 1 are SERVER and NOTIFY)
SrcFd == 3
DestFd == 4
Fds == {SrcFd, DestFd}
OtherFd(fd) == IF fd = SrcFd THEN DestFd ELSE SrcFd

\* BUF_LEN, 65536 in the code, and the bytes each peer sends, scaled down
BUF_LEN == 2
MaxBytes == 2

NORMAL == 0
READ_CLOSED == 1
WRITE_CLOSED == 2
BOTH_CLOSED == 3

\* `state |= bit` for a one-bit mask
SetBit(state, bit) == IF (state \div bit) % 2 = 1 THEN state ELSE state + bit

is_both_closed(state) == state = BOTH_CLOSED
is_read_closed(state) == state % 2 = 1 \/ is_both_closed(state)
is_write_closed(state) == (state \div 2) % 2 = 1 \/ is_both_closed(state)

ProxyValue_new(src_fd, dest_fd) ==
    [ src_fd |-> src_fd, dest_fd |-> dest_fd, src_buf |-> <<>>, dest_buf |-> <<>>,
      src_state |-> NORMAL, dest_state |-> NORMAL ]

\* ProxyValue::as_mut(index): the buffer and the state on the side of index
BufOf(v, fd) == IF fd = v.src_fd THEN v.src_buf ELSE v.dest_buf
StateOf(v, fd) == IF fd = v.src_fd THEN v.src_state ELSE v.dest_state
WithBuf(v, fd, b) ==
    IF fd = v.src_fd THEN [v EXCEPT !.src_buf = b] ELSE [v EXCEPT !.dest_buf = b]
WithState(v, fd, s) ==
    IF fd = v.src_fd THEN [v EXCEPT !.src_state = s] ELSE [v EXCEPT !.dest_state = s]
Mark(v, fd, bit) == WithState(v, fd, SetBit(StateOf(v, fd), bit))

\* a TCP socket as the proxy sees it: `avail` bytes wait to be read, the
\* peer has sent `sent` bytes (numbered 1, 2, ...) of which `nread` are read,
\* `fin` is the peer having closed its side, rd_shut and wr_shut are the
\* shutdown calls made on it, `written` the bytes written to it, in order,
\* wfail that a write on it has returned Ok(0) or an error other than
\* WouldBlock
Socket(avail, sent, nread, fin, rd_shut, wr_shut, written) ==
    [ avail |-> avail, sent |-> sent, nread |-> nread, fin |-> fin,
      rd_shut |-> rd_shut, wr_shut |-> wr_shut, written |-> written,
      wfail |-> FALSE ]
FreshSocket == Socket(0, 0, 0, FALSE, FALSE, FALSE, <<>>)

\* stream.shutdown(how)
shutdown(sk, fd, how) ==
    [sk EXCEPT ![fd].rd_shut = @ \/ how \in {"Read", "Both"},
               ![fd].wr_shut = @ \/ how \in {"Write", "Both"}]

\* the results stream.read(&mut buf) can have: Ok(len) as len, Ok(0) at the
\* end of the stream, WouldBlock as -1, another error as -2
ReadResults(s) ==
    (IF s.avail > 0 THEN 1..Min(s.avail, BUF_LEN)
     ELSE IF s.fin \/ s.rd_shut THEN {0} ELSE {0 - 1})
    \cup {0 - 2}

\* the results stream.write(data) can have, likewise; a socket whose write
\* side is shut down takes nothing
WriteResults(s, data) ==
    IF s.wr_shut THEN {0 - 2} ELSE (0..Len(data)) \cup {0 - 1, 0 - 2}

\* the bytes a read of len takes off the stream
Taken(s, len) == [i \in 1..len |-> s.nread + i]
AfterRead(sk, fd, len) ==
    [sk EXCEPT ![fd].avail = @ - len, ![fd].nread = @ + len]
AfterWrite(sk, fd, data, len) ==
    [sk EXCEPT ![fd].written = @ \o SubSeq(data, 1, len)]
\* a write that returned Ok(0) with bytes to write, or an error; the note of
\* it is kept until the handling of the event is over
WriteFailed(sk, fd) == [sk EXCEPT ![fd].wfail = TRUE]
EventOver(sk) == [fd \in DOMAIN sk |-> [sk[fd] EXCEPT !.wfail = FALSE]]

\* a mutant of Unsent: the written bytes are not taken off
Unsent_All(data, end) == data

\* `buf = &buf[end..]` and `mid_buf.split_to(len)`: what is left to write
Unsent(data, end) == SubSeq(data, end + 1, Len(data))

\* where the event loop stands: at poll ("poll"), at the read of
\* readable_handle ("rh"), at the write of its inner loop ("rw") with `chunk`
\* left to write, at the write of writable_handle ("wh"), or past the
\* handles ("finish"); index and ev are the event's token and flags, call
\* tells the readable_handle of line 146 (1) from that of line 153 (2)
Position(pc, index, ev, call, chunk, read) ==
    [pc |-> pc, index |-> index, ev |-> ev, call |-> call, chunk |-> chunk,
     read |-> read]
AtPoll == Position("poll", SrcFd, {}, 1, <<>>, FALSE)

\* the flags an event carries
EventFlags ==
    { {"readable"}, {"writable"}, {"readable", "writable"},
      {"readable", "read_closed"}, {"write_closed"}, {"error"} }

\* the entry of tcp_map an event of token index is about, if any
SrcIndexOf(index) ==
    IF index \in DOMAIN tcp_map THEN index
    ELSE IF index \in DOMAIN mapping /\ mapping[index] \in DOMAIN tcp_map
    THEN mapping[index]
    ELSE NoIndex

\* the streams of the readable_handle call in progress: it reads `from` and
\* writes `to`
ReadingFd == IF px.call = 1 THEN px.index ELSE OtherFd(px.index)
WritingFd == OtherFd(ReadingFd)
\* the ProxyValue the event in hand is about
CurrentValue == tcp_map[SrcIndexOf(px.index)]
Store(v) == [tcp_map EXCEPT ![SrcIndexOf(px.index)] = v]

\* past the readable_handle of line 146: the writable part of the event
WritePhase(v, index, ev) ==
    IF "writable" \in ev
    THEN Position("wh", index, ev, 1, <<>>, Len(BufOf(v, OtherFd(index))) >= BUF_LEN)
    ELSE Position("finish", index, ev, 1, <<>>, FALSE)

\* readable_handle returns, Ok or Err, leaving the ProxyValue as v
RhReturn(v, ok) ==
    IF px.call = 1
    THEN LET v1 == IF ok THEN v ELSE Mark(v, px.index, READ_CLOSED)
         IN  /\ tcp_map' = Store(v1)
             /\ px' = WritePhase(v1, px.index, px.ev)
    ELSE /\ tcp_map' = Store(IF ok THEN v ELSE Mark(v, OtherFd(px.index), READ_CLOSED))
         /\ px' = Position("finish", px.index, px.ev, 1, <<>>, FALSE)

\* writable_handle returns
WhReturn(v, ok) ==
    IF ok
    THEN /\ tcp_map' = Store(v)
         /\ px' = IF px.read THEN Position("rh", px.index, px.ev, 2, <<>>, FALSE)
                  ELSE Position("finish", px.index, px.ev, 1, <<>>, FALSE)
    ELSE /\ tcp_map' = Store(Mark(v, px.index, WRITE_CLOSED))
         /\ px' = Position("finish", px.index, px.ev, 1, <<>>, FALSE)

\* poll returns an event of a stream's token
ProxyPoll ==
    /\ px.pc = "poll"
    /\ \E index \in Fds, ev \in EventFlags :
         /\ SrcIndexOf(index) # NoIndex
         /\ px' = IF "readable" \in ev
                  THEN Position("rh", index, ev, 1, <<>>, FALSE)
                  ELSE WritePhase(tcp_map[SrcIndexOf(index)], index, ev)
    /\ UNCHANGED <<tcp_map, mapping, sock, pxClosed, OthersProxy>>

\* readable_handle: the top of its loop and stream1.read
ProxyRhRead ==
    /\ px.pc = "rh"
    /\ LET v == CurrentValue
           mid_buf == BufOf(v, ReadingFd)
       IN  IF Len(mid_buf) >= BUF_LEN
           THEN RhReturn(v, TRUE) /\ sock' = sock
           ELSE \E len \in ReadResults(sock[ReadingFd]) :
                  IF len > 0
                  THEN /\ sock' = AfterRead(sock, ReadingFd, len)
                       /\ IF mid_buf = <<>>
                          THEN /\ px' = [px EXCEPT !.pc = "rw",
                                            !.chunk = Taken(sock[ReadingFd], len)]
                               /\ tcp_map' = tcp_map
                          ELSE /\ tcp_map' = Store(WithBuf(v, ReadingFd,
                                      mid_buf \o Taken(sock[ReadingFd], len)))
                               /\ px' = px
                  ELSE RhReturn(v, len = 0 - 1) /\ sock' = sock
    /\ UNCHANGED <<mapping, pxClosed, OthersProxy>>

\* readable_handle: stream2.write(buf) of its inner loop
ProxyRhWrite ==
    /\ px.pc = "rw"
    /\ LET v == CurrentValue
       IN  \E end \in WriteResults(sock[WritingFd], px.chunk) :
             IF end > 0
             THEN /\ sock' = AfterWrite(sock, WritingFd, px.chunk, end)
                  /\ px' = IF Unsent(px.chunk, end) = <<>>
                           THEN [px EXCEPT !.pc = "rh", !.chunk = <<>>]
                           ELSE [px EXCEPT !.chunk = Unsent(px.chunk, end)]
                  /\ tcp_map' = tcp_map
             ELSE IF end = 0 - 1
             THEN /\ tcp_map' = Store(WithBuf(v, ReadingFd, px.chunk))
                  /\ px' = [px EXCEPT !.pc = "rh", !.chunk = <<>>]
                  /\ sock' = sock
             ELSE /\ RhReturn(Mark(v, WritingFd, WRITE_CLOSED), FALSE)
                  /\ sock' = WriteFailed(sock, WritingFd)
    /\ UNCHANGED <<mapping, pxClosed, OthersProxy>>

\* writable_handle: the test of its loop and stream.write(mid_buf)
ProxyWh ==
    /\ px.pc = "wh"
    /\ LET v == CurrentValue
           mid_buf == BufOf(v, OtherFd(px.index))
       IN  IF mid_buf = <<>>
           THEN WhReturn(v, TRUE) /\ sock' = sock
           ELSE \E len \in WriteResults(sock[px.index], mid_buf) :
                  IF len >= 0
                  THEN /\ sock' = IF len = 0 THEN WriteFailed(sock, px.index)
                                  ELSE AfterWrite(sock, px.index, mid_buf, len)
                       /\ tcp_map' = Store(WithBuf(v, OtherFd(px.index),
                                                   Unsent(mid_buf, len)))
                       /\ px' = px
                  ELSE /\ WhReturn(v, len = 0 - 1)
                       /\ sock' = IF len = 0 - 1 THEN sock
                                  ELSE WriteFailed(sock, px.index)
    /\ UNCHANGED <<mapping, pxClosed, OthersProxy>>

\* a mutant of ShouldClose: a side closed both ways is enough, whatever its
\* buffer holds
ShouldClose_Undrained(state1, state2, buf1, buf2) ==
    \/ is_both_closed(state1)
    \/ is_both_closed(state2)
    \/ is_write_closed(state1) /\ is_write_closed(state2)
    \/ /\ is_read_closed(state1)
       /\ is_read_closed(state2)
       /\ buf1 = <<>>
       /\ buf2 = <<>>

\* a mutant of ShouldClose: the test for both sides read-closed is left out
ShouldClose_NoHalfClose(state1, state2, buf1, buf2) ==
    \/ is_both_closed(state1) /\ buf1 = <<>>
    \/ is_both_closed(state2) /\ buf2 = <<>>
    \/ is_write_closed(state1) /\ is_write_closed(state2)

\* the condition under which tcp_proxy calls close
ShouldClose(state1, state2, buf1, buf2) ==
    \/ is_both_closed(state1) /\ buf1 = <<>>
    \/ is_both_closed(state2) /\ buf2 = <<>>
    \/ is_write_closed(state1) /\ is_write_closed(state2)
    \/ /\ is_read_closed(state1)
       /\ is_read_closed(state2)
       /\ buf1 = <<>>
       /\ buf2 = <<>>

\* what tcp_map.remove gave close, once it has run
NotClosed == [ProxyValue_new(NoIndex, NoIndex) EXCEPT !.src_state = NoIndex]

\* the rest of an event of a stream's token: the closed flags of the event,
\* the shutdowns and close(src_index, tcp_map, mapping)
ProxyFinish ==
    /\ px.pc = "finish"
    /\ LET index == px.index
           other == OtherFd(index)
           failed == "error" \in px.ev
           v1 == IF "read_closed" \in px.ev \/ failed
                 THEN Mark(CurrentValue, index, READ_CLOSED) ELSE CurrentValue
           v == IF "write_closed" \in px.ev \/ failed
                THEN Mark(v1, index, WRITE_CLOSED) ELSE v1
           state1 == StateOf(v, index)
           buf1 == BufOf(v, index)
           sk1 == IF is_write_closed(state1)
                  THEN shutdown(shutdown(sock, index, "Write"), other, "Read")
                  ELSE sock
           sk2 == IF is_read_closed(state1)
                  THEN IF buf1 = <<>>
                       THEN shutdown(shutdown(sk1, index, "Read"), other, "Write")
                       ELSE shutdown(sk1, index, "Read")
                  ELSE sk1
           src_index == SrcIndexOf(index)
       IN  IF ShouldClose(state1, StateOf(v, other), buf1, BufOf(v, other))
           THEN /\ tcp_map' = [k \in DOMAIN tcp_map \ {src_index} |-> tcp_map[k]]
                /\ sock' = EventOver(shutdown(shutdown(sk2, v.src_fd, "Both"),
                                              v.dest_fd, "Both"))
                /\ mapping' = [k \in DOMAIN mapping \ {v.src_fd, v.dest_fd} |-> mapping[k]]
                /\ pxClosed' = v
           ELSE /\ tcp_map' = Store(v)
                /\ sock' = EventOver(sk2)
                /\ UNCHANGED <<mapping, pxClosed>>
    /\ px' = AtPoll
    /\ UNCHANGED OthersProxy

\* the peer of a stream sends one more byte, or closes its side
PeerSends ==
    /\ tcp_map # <<>>
    /\ \E fd \in Fds :
         /\ sock[fd].sent < MaxBytes
         /\ ~sock[fd].fin
         /\ sock' = [sock EXCEPT ![fd].sent = @ + 1, ![fd].avail = @ + 1]
    /\ UNCHANGED <<tcp_map, mapping, px, pxClosed, OthersProxy>>

PeerCloses ==
    /\ tcp_map # <<>>
    /\ \E fd \in Fds :
         /\ ~sock[fd].fin
         /\ sock' = [sock EXCEPT ![fd].fin = TRUE]
    /\ UNCHANGED <<tcp_map, mapping, px, pxClosed, OthersProxy>>

ProxyPinned ==
    /\ tcp_map = <<>>
    /\ mapping = <<>>
    /\ sock = [fd \in Fds |-> FreshSocket]
    /\ px = AtPoll
    /\ pxClosed = NotClosed

(***************************************************************************)
(* Two nodes behind Cone NATs and the server that relays between them      *)
(***************************************************************************)
\* the punch punchRounds a node's punch_request runs
MaxRounds == 1

\* the public address the NAT of node n gives its UDP socket
PublicAddr(n) == Addr4(selfNat[n].public_ips[1], selfNat[n].public_ports[1])

\* a packet on its way to node `to`, with the route key the channel of `to`
\* will hand its handler
InFlight(from, to, pkt, key) == [from |-> from, to |-> to, pkt |-> pkt, key |-> key]

\* what a send of node `from` on route key `key` puts on the wire: the
\* server relays to the packet's destination, a public address of a node
\* leads to that node, any other address to nobody
WireOf(from, pkt, key) ==
    IF key = ServerKey
    THEN {InFlight(from, m, pkt, ServerKey) : m \in {x \in Nodes \ {from} : x = pkt.destination}}
    ELSE {InFlight(from, m, pkt, RouteKey(0, PublicAddr(from), FALSE)) :
             m \in {x \in Nodes \ {from} : PublicAddr(x) = key.addr}}

\* the nodes whose public address a send on `key` goes to: the NAT of the
\* sender lets their packets in from then on
OpenedBy(from, keys) == {x \in Nodes \ {from} : \E k \in keys : PublicAddr(x) = k.addr}

\* punch_packet(client_cipher, virtual_ip, nat_info, dest)
punch_packet(virtual_ip, nat_info, dest) ==
    [NetPacket("OtherTurn", "Punch", virtual_ip, dest, MAX_TTL, MAX_TTL)
        EXCEPT !.info = InfoOfNat(nat_info, FALSE)]

\* punch0 at node n, called by punch_request while the node is online: a
\* PunchInfo to at most two of the peers above it that need a punch
punch0(n) ==
    /\ status[n] = "Connected"
    /\ punchRounds[n] < MaxRounds
    /\ LET list == {m \in Nodes : IpGt(m, n) /\ need_punch(n, m)}
       IN  \E chosen \in SUBSET list :
             /\ Cardinality(chosen) = Min(2, Cardinality(list))
             /\ net' = net \cup UNION {WireOf(n, punch_packet(cfg[n].virtual_ip,
                                                 selfNat[n], m), ServerKey) :
                                         m \in chosen}
    /\ punchRounds' = [punchRounds EXCEPT ![n] = @ + 1]
    /\ UNCHANGED <<opened, punched, nodeVars, punchVars, handlerVars>>

\* punch_start on worker w of node n: it takes (peer_ip, nat_info) off its
\* queue and calls Punch::punch with a PunchRequest of ttl 1; every send
\* goes out
punch_start(n, w) ==
    /\ punchQ[n][w] # <<>>
    /\ LET peer_ip == Head(punchQ[n][w]).ip
           packet == first_set_ttl(NetPacket("Control", "PunchRequest",
                                             cfg[n].virtual_ip, peer_ip, 1, 1), 1)
       IN  /\ Punch(n, w, peer_ip, Head(punchQ[n][w]).nat)
           /\ lastPunch'.result = "Ok"
           /\ LET keys == {RouteKey(0, lastPunch'.udp[i].addr, FALSE) :
                              i \in 1..Len(lastPunch'.udp)}
              IN  /\ net' = net \cup UNION {WireOf(n, packet, k) : k \in keys}
                  /\ opened' = [opened EXCEPT ![n] = @ \cup OpenedBy(n, keys)]
           /\ punched' = punched \cup {<<n, peer_ip>>}
    /\ punchQ' = [punchQ EXCEPT ![n][w] = Tail(@)]
    /\ UNCHANGED <<portVec, nodeVars, peerNat, selfNat, lastHandle, punchRounds>>

\* a packet reaches its node and the handler runs on it; its sends go out
NetDeliver ==
    \E m \in net :
        /\ ClientHandle(m.to, {<<m.pkt, m.key, EnvOk>>})
        /\ LET sends == lastHandle'.sends
               keys == {sends[i].key : i \in 1..Len(sends)}
           IN  /\ net' = (net \ {m}) \cup
                         UNION {WireOf(m.to, sends[i].pkt, sends[i].key) :
                                   i \in 1..Len(sends)}
               /\ opened' = [opened EXCEPT ![m.to] = @ \cup OpenedBy(m.to, keys \ {ServerKey})]
        /\ UNCHANGED <<cfg, selfNat, punchVars, punchRounds, punched>>

\* a packet from a peer the node has not yet sent to stops at the node's
\* NAT when that filters by address
NetDrop ==
    \E m \in net :
        /\ m.key # ServerKey
        /\ m.from \notin opened[m.to]
        /\ net' = net \ {m}
        /\ UNCHANGED <<opened, punchRounds, punched, nodeVars, punchVars, handlerVars>>

NetPinned ==
    /\ net = {}
    /\ opened = [n \in Nodes |-> {}]
    /\ punchRounds = [n \in Nodes |-> 0]
    /\ punched = {}


(***************************************************************************)
(* Single calls looked at on their own                                     *)
(***************************************************************************)
\* no fine-range phase has run
NoFine == [done |-> FALSE, nat |-> <<>>, ports |-> <<>>, sends |-> <<>>, err |-> FALSE]

\* punch0 has not been called: the device list it will read, and, after the
\* call, the packets send_default took and what punch0 returned
NoReq == [devices |-> {}, called |-> FALSE, sends |-> <<>>, result |-> "none"]

\* CurrentDeviceInfo as the AtomicCell holds it: the fields a writer may
\* change
DeviceCell(virtual_ip, st, connect_server) ==
    [virtual_ip |-> virtual_ip, status |-> st, connect_server |-> connect_server]

\* domain_request0 has not been called: the cell, where the call stands, the
\* snapshot it loaded, the address it resolved, the result of its
\* compare_exchange and the copy it returned; the writes of other writers so
\* far, every value the cell has held, and what a reader last loaded
NoDom ==
    [ cell |-> DeviceCell(NodeA, "Connected", ServerAddr), pc |-> "start",
      snap |-> DeviceCell(NodeA, "Connected", ServerAddr), addr |-> ServerAddr,
      rs |-> "none", ret |-> DeviceCell(NodeA, "Connected", ServerAddr),
      writes |-> 0, held |-> {DeviceCell(NodeA, "Connected", ServerAddr)},
      seen |-> DeviceCell(NodeA, "Connected", ServerAddr) ]

\* the periodic tasks of the maintenance loop
Tasks == {"idle_route", "idle_gateway", "punch_request"}

\* a chain: waiting on its timer ("pending") or at its end ("ended"), the
\* delay it last asked for in ms, the ticks it has run, and those of them
\* run after stop(), both counted up to MaxTicks
Chain(state, delay, count, after) ==
    [state |-> state, delay |-> delay, count |-> count, after |-> after]

\* every chain is started, the scheduler runs
SchedStarted ==
    [stopped |-> FALSE, task |-> [t \in Tasks |-> Chain("pending", 0, 0, 0)]]

\* what one run of check_gateway_channel did: its io::Result, whether it
\* found the node offline, connect_count and the age of the handshake clock
\* after it, and whether a handshake went out by UDP or on a new TCP socket
GwResult(result, acted, count, age, sent, tcp_added, hs_err, tcp) ==
    [ result |-> result, acted |-> acted, count |-> count, age |-> age,
      sent |-> sent, tcp_added |-> tcp_added, hs_err |-> hs_err, tcp |-> tcp ]

\* the watchdog at rest: `due` seconds to its next tick, the handshake clock
\* `hsAge` seconds old (HS_INTERVAL stands for that or more), no loss to
\* recover from
\* (lossAge below zero), nothing on the wire
GwIdle(due) ==
    [ due |-> due, hsAge |-> HS_INTERVAL, lossAge |-> 0 - 1, wire |-> FALSE,
      tries |-> 0, fails |-> 0,
      last |-> GwResult("none", FALSE, 0, HS_INTERVAL, FALSE, FALSE, FALSE, "none") ]

\* nothing swept yet: no address sent to, none sent to again, every phase so
\* far with a public IP, the index not wrapped
NoSweep == [sent |-> {}, again |-> {}, clean |-> TRUE, wrapped |-> FALSE]

\* no window computed yet
NoWindow ==
    [ pc |-> "none", public_ports |-> <<>>, range |-> 0, ips |-> <<>>,
      min_port |-> 0, max_port |-> 0, under |-> FALSE, k |-> 0, len |-> 0,
      ports |-> <<>>, sends |-> <<>>, err |-> FALSE ]

\* TcpProxy before new has bound its listener, and no call made yet
NoTcpProxy == [port |-> 0, nat_map |-> <<>>]
NoProxyCall ==
    [ op |-> "none", source |-> <<>>, destination |-> <<>>, in |-> <<>>,
      out |-> <<>>, ret |-> "none", log |-> <<>>, flow |-> <<>> ]

MorePinned ==
    /\ finePhase = NoFine
    /\ sched = SchedStarted
    /\ gw = GwIdle(0)
    /\ req = NoReq
    /\ dom = NoDom
    /\ sweep = NoSweep
    /\ fineWin = NoWindow
    /\ tcpProxy = NoTcpProxy
    /\ proxyCall = NoProxyCall

(***************************************************************************)
(* The specifications, one per part, and the claims checked under each     *)
(***************************************************************************)
\* ---- the NatInfo specification: every argument list, then the constructor
InitNat ==
    /\ natIn \in NatInputs
    /\ natInfo = natIn
    /\ natPc = "args"
    /\ HsPinned
    /\ NodePinned
    /\ PunchPinned
    /\ HandlerPinned
    /\ IdlePinned
    /\ ProxyPinned
    /\ NetPinned
    /\ MorePinned

NatNew ==
    /\ natPc = "args"
    /\ natInfo' = NatInfo_new(natIn)
    /\ natPc' = "built"
    /\ UNCHANGED <<natIn, OthersNat>>

NextNat == NatNew

SpecNat == InitNat /\ [][NextNat]_vars

\* C3: for every input of NatInfo::new the public_ips of the result holds no
\* multicast, broadcast, unspecified, loopback or private address, and when
\* two or more distinct addresses remain the nat_type is Symmetric whatever
\* nat_type was passed in.
C3_NatNormalized ==
    natPc = "built" =>
        /\ \A i \in 1..Len(natInfo.public_ips) :
              LET ip == natInfo.public_ips[i]
              IN  /\ ~is_multicast(ip)
                  /\ ~is_broadcast(ip)
                  /\ ~is_unspecified(ip)
                  /\ ~is_loopback(ip)
                  /\ ~is_private(ip)
        /\ Cardinality(Range(natInfo.public_ips)) >= 2
              => natInfo.nat_type = "Symmetric"

\* a Cone profile with a private address and two distinct global ones went
\* through the constructor
C3_Witness ==
    /\ natPc = "built"
    /\ natIn.nat_type = "Cone"
    /\ \E i \in 1..Len(natIn.public_ips) : is_private(natIn.public_ips[i])
    /\ Cardinality(Range(natInfo.public_ips)) = 2
    /\ natInfo.nat_type = "Symmetric"

\* ---- the punch engine of node A, called with every profile below on a
\* ---- route table and a configuration drawn at the start
PeerPublicIp == Ip(2, 2, 2, 2)
PeerPublicIp2 == Ip(2, 2, 2, 3)
PeerLocalIp == Ip(192, 168, 1, 3)

PunchNats ==
    { NatInfo_new(a) : a \in
        { NatArgs(<<PeerPublicIp>>, <<50000>>, 0, PeerLocalIp, "none", <<50000>>, 0, "Cone"),
          NatArgs(<<PeerPublicIp>>, <<50000, 0>>, 0, PeerLocalIp, "global", <<50000, 50002>>,
                  50001, "Cone"),
          NatArgs(<<PeerPublicIp>>, <<2>>, 1, NoIp, "none", <<50000>>, 0, "Symmetric"),
          NatArgs(<<PeerPublicIp, PeerPublicIp2>>, <<>>, 0, PeerLocalIp, "none",
                  <<50000>>, 50001, "Cone"),
          NatArgs(<<PeerPublicIp, PeerPublicIp2>>, <<NumPorts>>, 1, NoIp, "none", <<>>, 0,
                  "Symmetric"),
          NatArgs(<<>>, <<3>>, max_k1 * 3, NoIp, "global", <<50000>>, 0, "Symmetric"),
          NatArgs(<<PeerPublicIp>>, <<50000, 50001, 50002>>, 0, NoIp, "none", <<50000>>,
                  50001, "Cone"),
          NatArgs(<<>>, <<50000>>, 0, PeerLocalIp, "none", <<50000>>, 50001, "Cone") } }

\* the configurations of node A the engine is tried under
PunchCfg(ch, cone, tcp, pm) ==
    [DefaultCfg(NodeA) EXCEPT !.channel_num = ch, !.is_cone = cone,
                              !.is_tcp = tcp, !.punch_model = pm]

PeerDirectKey == RouteKey(0, Addr4(PeerPublicIp, 50000), FALSE)

\* the states of node A the engine is tried in: a configuration, a route
\* table (none, a relayed route, a direct route, a direct route whose read
\* time has run out) and one of the orders port_vec.shuffle can leave
PunchSetting(c, table, old, pv) == [cfg |-> c, table |-> table, stale |-> old, pv |-> pv]

PunchSettings ==
    LET relayed == {RouteFromDefaultRt(NodeB, ServerKey, 2)}
        direct == {RouteFromDefaultRt(NodeB, PeerDirectKey, 1)}
        aged == {<<NodeB, PeerDirectKey>>}
    IN  { PunchSetting(PunchCfg(1, TRUE, FALSE, "IPv4"), {}, {}, PortAscending),
          PunchSetting(PunchCfg(1, TRUE, FALSE, "IPv4"), direct, {}, PortAscending),
          PunchSetting(PunchCfg(2, TRUE, TRUE, "All"), relayed, {}, PortDescending),
          PunchSetting(PunchCfg(2, TRUE, TRUE, "All"), direct, aged, PortAscending),
          PunchSetting(PunchCfg(2, FALSE, TRUE, "IPv6"), {}, {}, PortDescending),
          PunchSetting(PunchCfg(2, FALSE, TRUE, "IPv6"), direct, {}, PortDescending) }

PunchPeers == {NodeB}

InitPunch ==
    /\ \E t \in PunchSettings :
         /\ cfg = [n \in Nodes |-> IF n = NodeA THEN t.cfg ELSE DefaultCfg(n)]
         /\ rt = [n \in Nodes |-> IF n = NodeA THEN t.table ELSE {}]
         /\ stale = [n \in Nodes |-> IF n = NodeA THEN t.stale ELSE {}]
         /\ portVec = [n \in Nodes |-> IF n = NodeA THEN t.pv ELSE PortAscending]
    /\ portIndex = [n \in Nodes |-> [w \in Workers |-> <<>>]]
    /\ lastPunch = NoPunch
    /\ NatPinned
    /\ HsPinned
    /\ HandlerPinned
    /\ IdlePinned
    /\ ProxyPinned
    /\ NetPinned
    /\ MorePinned

\* punch_start: a worker of node A runs Punch::punch on what it received
PunchCall ==
    \E id \in PunchPeers, nat \in PunchNats :
        /\ Punch(NodeA, WorkerFor(TRUE, nat.nat_type), id, nat)
        /\ UNCHANGED <<portVec, nodeVars, OthersPunch>>

NextPunch == PunchCall

SpecPunch == InitPunch /\ [][NextPunch]_vars

\* C1: when need_punch(peer) is false as Punch::punch is called, it returns
\* Ok with no UDP send and no TCP connect attempt made, and the peer's
\* port_index is as it was.
C1_PunchGate ==
    (lastPunch.result # "none" /\ ~need_punch(lastPunch.node, lastPunch.peer))
    => /\ lastPunch.result = "Ok"
       /\ lastPunch.udp = <<>>
       /\ lastPunch.tcp = <<>>
       /\ lastPunch.after = lastPunch.before
       /\ ~lastPunch.gate

\* a punch was called for a peer that has a fresh direct route, while the
\* worker holds a port_index for that peer
C1_Witness ==
    /\ lastPunch.result = "Ok"
    /\ ~need_punch(lastPunch.node, lastPunch.peer)
    /\ lastPunch.peer = NodeB
    /\ lastPunch.udp = <<>>

\* ---- the steps of Handshake::send for caller t
\* a mutant of HsRateLimited: the limit is taken in the wrong unit
HsRateLimited_Short(last, t) == t - last < HS_INTERVAL \div 3

\* `last.elapsed() < Duration::from_secs(3)`
HsRateLimited(last, t) == t - last < HS_INTERVAL

HsBegun == Len(hsLog) + Cardinality({t \in HsCallers : hsPc[t] # "idle"})

HsDone(t, sent, ok) ==
    /\ hsLog' = Append(hsLog, [caller |-> t, start |-> hsStart[t],
                               sent |-> sent, ok |-> ok, end |-> now])
    /\ hsPc' = [hsPc EXCEPT ![t] = "idle"]

\* time passes
Tick ==
    /\ now < MaxTime
    /\ now' = now + 1
    /\ UNCHANGED <<hsTime, hsPc, hsLast, hsStart, hsWire, hsLog, OthersHs>>

\* the call begins: the clock is loaded and the rate limit tested
HsCall(t) ==
    /\ hsPc[t] = "idle"
    /\ HsBegun < MaxCalls
    /\ hsLast' = [hsLast EXCEPT ![t] = hsTime]
    /\ hsStart' = [hsStart EXCEPT ![t] = now]
    /\ IF HsRateLimited(hsTime, now)
       THEN /\ hsLog' = Append(hsLog, [caller |-> t, start |-> now,
                                       sent |-> FALSE, ok |-> TRUE, end |-> now])
            /\ hsPc' = hsPc
       ELSE /\ hsPc' = [hsPc EXCEPT ![t] = "send"]
            /\ hsLog' = hsLog
    /\ UNCHANGED <<now, hsTime, hsWire, OthersHs>>

\* a mutant of HsFailedClock: the clock is stamped though the call failed
HsFailedClock_Stamped(clock, t) == t

\* the clock a `?` of Handshake::send leaves behind at time t: the return
\* comes before self.time.store
HsFailedClock(clock, t) == clock

\* handshake_request_packet(secret)? and context.send_default(..)?
HsSend(t) ==
    /\ hsPc[t] = "send"
    /\ \E outcome \in {"sent", "build_err", "send_err"} :
         IF outcome = "sent"
         THEN /\ hsWire' = Append(hsWire, now)
              /\ hsPc' = [hsPc EXCEPT ![t] = "store"]
              /\ hsLog' = hsLog
              /\ hsTime' = hsTime
         ELSE /\ HsDone(t, FALSE, FALSE)
              /\ hsWire' = hsWire
              /\ hsTime' = HsFailedClock(hsTime, now)
    /\ UNCHANGED <<now, hsLast, hsStart, OthersHs>>

\* self.time.store(Instant::now()); Ok(())
HsStore(t) ==
    /\ hsPc[t] = "store"
    /\ hsTime' = now
    /\ HsDone(t, TRUE, TRUE)
    /\ UNCHANGED <<now, hsLast, hsStart, hsWire, OthersHs>>

\* ---- one caller: the calls of Handshake::send follow one another
InitHs ==
    HsPinned /\ NatPinned /\ NodePinned /\ PunchPinned /\ HandlerPinned /\ IdlePinned
    /\ ProxyPinned
    /\ NetPinned
    /\ MorePinned

NextHs == Tick \/ HsCall(1) \/ HsSend(1) \/ HsStore(1)

SpecHs == InitHs /\ [][NextHs]_vars

\* the on-wire requests between two instants
HsWireBetween(a, b) ==
    Cardinality({k \in 1..Len(hsWire) : hsWire[k] >= a /\ hsWire[k] <= b})

\* C2: of two calls of Handshake::send on one clock that begin less than 3 s
\* apart, the first having sent and stamped the clock, the second returns Ok
\* without sending: exactly one request is on the wire for the two calls.
C2_HandshakeRateLimit ==
    \A i, j \in 1..Len(hsLog) :
        (i < j /\ hsLog[i].sent
               /\ hsLog[j].start - hsLog[i].start < HS_INTERVAL)
        => /\ ~hsLog[j].sent
           /\ hsLog[j].ok
           /\ hsTime >= hsLog[i].end
           /\ j = i + 1 => HsWireBetween(hsLog[i].start, hsLog[j].end) = 1

\* a call that sent is followed, less than 3 s later, by one that did not
C2_Witness ==
    \E i, j \in 1..Len(hsLog) :
        /\ j = i + 1
        /\ hsLog[i].sent
        /\ hsLog[j].start > hsLog[i].start
        /\ hsLog[j].start - hsLog[i].start < HS_INTERVAL
        /\ ~hsLog[j].sent

\* C17: a call of Handshake::send that fails in building or sending the
\* request returns the error with the clock as it found it, so the call
\* that follows it, however soon, is not rate-limited: it goes on to send.
C17_FailureNotStamped ==
    \A i \in 1..Len(hsLog) :
        ~hsLog[i].ok =>
            /\ ~hsLog[i].sent
            /\ i < Len(hsLog) => (hsLog[i + 1].sent \/ ~hsLog[i + 1].ok)
            /\ (i = Len(hsLog) /\ hsPc[1] = "idle") => ~HsRateLimited(hsTime, hsLog[i].start)

\* a call failed, and the call begun at the instant it returned sent
C17_Witness ==
    \E i \in 1..(Len(hsLog) - 1) :
        /\ ~hsLog[i].ok
        /\ hsLog[i + 1].start = hsLog[i].end
        /\ hsLog[i + 1].sent
        /\ hsLog[i + 1].ok

\* ---- two callers, each with a clone of the Handshake: their steps
\* ---- interleave on the one shared clock
HsCalls == \E t \in HsCallers : HsCall(t)
HsSends == \E t \in HsCallers : HsSend(t)
HsStores == \E t \in HsCallers : HsStore(t)

NextHs2 == Tick \/ HsCalls \/ HsSends \/ HsStores

SpecHs2 == InitHs /\ [][NextHs2]_vars

\* C16: however the calls of Handshake::send on clones interleave, no two
\* requests go on the wire less than 3 seconds apart.
C16_OnePerWindow ==
    \A i, j \in 1..Len(hsWire) :
        i < j => hsWire[j] - hsWire[i] >= HS_INTERVAL

\* ---- the client packet handler of node A, fed the packets of one protocol
\* ---- from peer B over the keys below, in a node state drawn at the start
PeerV6Key == RouteKey(0, Addr6(50000), FALSE)
ExternalIp == Ip(192, 168, 7, 7)

HandlerCfg(relay, proxy) ==
    [DefaultCfg(NodeA) EXCEPT !.relay_only = relay, !.ip_proxy = proxy]

\* the states node A's handler is tried in: relay-only or not, the ip proxy
\* there or not, no route to B or a relayed route whose read time has run out
HandlerSetting(c, table, old) == [cfg |-> c, table |-> table, stale |-> old]

HandlerSettings ==
    LET relayed == {RouteFromDefaultRt(NodeB, ServerKey, 2)}
        aged == {<<NodeB, ServerKey>>}
    IN  { HandlerSetting(HandlerCfg(FALSE, TRUE), {}, {}),
          HandlerSetting(HandlerCfg(TRUE, TRUE), {}, {}),
          HandlerSetting(HandlerCfg(FALSE, FALSE), relayed, aged),
          HandlerSetting(HandlerCfg(TRUE, FALSE), relayed, aged) }

InitHandler ==
    /\ \E t \in HandlerSettings :
         /\ cfg = [n \in Nodes |-> IF n = NodeA THEN t.cfg ELSE DefaultCfg(n)]
         /\ rt = [n \in Nodes |-> IF n = NodeA THEN t.table ELSE {}]
         /\ stale = [n \in Nodes |-> IF n = NodeA THEN t.stale ELSE {}]
    /\ HandlerPinned
    /\ IdlePinned
    /\ ProxyPinned
    /\ NetPinned
    /\ MorePinned
    /\ NatPinned
    /\ HsPinned
    /\ PunchPinned

\* a packet no cipher key opens
Unsealed == [NetPacket("Control", "Ping", NodeB, NodeA, MAX_TTL, MAX_TTL)
                EXCEPT !.sealed = FALSE]

\* IpTurn packets from B: the inner packets are an echo request to the
\* overlay destination (from B itself and from a host behind B), an echo
\* reply, an ICMP payload too short to parse, an echo request and a TCP
\* segment for an external address, a TCP segment for A, a subnet broadcast,
\* a limited broadcast, a multicast, an echo request for the unspecified
\* address, and a payload that is no IPv4 packet
IpTurnInners(dst) ==
    { Inner(TRUE, "Icmp", NodeB, dst, "EchoRequest"),
      Inner(TRUE, "Icmp", ExternalIp, dst, "EchoRequest"),
      Inner(TRUE, "Icmp", NodeB, dst, "EchoReply"),
      Inner(TRUE, "Icmp", NodeB, dst, "None"),
      Inner(TRUE, "Icmp", NodeB, ExternalIp, "EchoRequest"),
      Inner(TRUE, "Tcp", NodeB, ExternalIp, "None"),
      Inner(TRUE, "Tcp", NodeB, dst, "None"),
      Inner(TRUE, "Udp", NodeB, BroadcastIp, "None"),
      Inner(TRUE, "Udp", NodeB, Ip(255, 255, 255, 255), "None"),
      Inner(TRUE, "Udp", NodeB, Ip(224, 0, 0, 251), "None"),
      Inner(TRUE, "Icmp", NodeB, Ip(0, 0, 0, 0), "EchoRequest"),
      NoInner }

IpTurnPackets ==
    { [NetPacket("IpTurn", "Ipv4", NodeB, NodeA, MAX_TTL, MAX_TTL) EXCEPT !.inner = i] :
        i \in IpTurnInners(NodeA) }
    \cup { [NetPacket("IpTurn", "Ipv4", NodeB, NodeC, MAX_TTL - 1, MAX_TTL)
               EXCEPT !.inner = Inner(TRUE, "Icmp", NodeB, NodeC, "EchoRequest")],
           NetPacket("IpTurn", "Ipv4Broadcast", NodeB, NodeA, MAX_TTL, MAX_TTL),
           NetPacket("IpTurn", "Unknown", NodeB, NodeA, MAX_TTL, MAX_TTL),
           NetPacket("Service", "Unknown", NodeB, NodeA, MAX_TTL, MAX_TTL),
           Unsealed }

IpTurnEnvs ==
    { EnvOk, [EnvOk EXCEPT !.send_ok = FALSE], [EnvOk EXCEPT !.tun_ok = FALSE],
      [EnvOk EXCEPT !.allow = FALSE], [EnvOk EXCEPT !.proxy = "taken"],
      [EnvOk EXCEPT !.proxy = "err"],
      [EnvOk EXCEPT !.allow = FALSE, !.proxy = "taken"],
      [EnvOk EXCEPT !.allow = FALSE, !.proxy = "err"] }

IpTurnInputs == IpTurnPackets \X {ServerKey, PeerDirectKey} \X IpTurnEnvs

HandleIpTurn ==
    /\ ClientHandle(NodeA, IpTurnInputs)
    /\ UNCHANGED <<cfg, selfNat, OthersHandler>>

NextIpTurn == HandleIpTurn

SpecIpTurn == InitHandler /\ [][NextIpTurn]_vars

\* the last packet handled was an IpTurn/Ipv4 packet carrying an ICMP
\* EchoRequest whose inner destination is the overlay destination
EchoRequestHandled ==
    /\ lastHandle.result # "none"
    /\ lastHandle.pkt.sealed
    /\ lastHandle.pkt.protocol = "IpTurn"
    /\ lastHandle.pkt.transport = "Ipv4"
    /\ lastHandle.pkt.inner.valid
    /\ lastHandle.pkt.inner.protocol = "Icmp"
    /\ lastHandle.pkt.inner.icmp = "EchoRequest"
    /\ lastHandle.pkt.inner.destination_ip = lastHandle.pkt.destination

ControlArrivals ==
    { <<ServerKey, MAX_TTL - 1, MAX_TTL>>,
      <<PeerDirectKey, MAX_TTL, MAX_TTL>>,
      <<PeerDirectKey, 2, 1>> }

\* a pong's time is 2; now_time() is 3, or 1 (the clock is behind the pong);
\* a debug build panics on overflow
ControlEnvs ==
    { EnvOk, [EnvOk EXCEPT !.send_ok = FALSE],
      [EnvOk EXCEPT !.now_time = 1, !.wrap = FALSE] }

ControlInputs ==
    { <<[NetPacket("Control", tr, NodeB, NodeA, a[2], a[3]) EXCEPT !.time = 2, !.sealed = ok],
        a[1], e>> :
        tr \in {"Ping", "Pong", "PunchRequest", "PunchResponse"},
        a \in ControlArrivals, e \in ControlEnvs, ok \in {TRUE} }
    \cup { <<NetPacket("Control", tr, NodeB, NodeA, MAX_TTL, MAX_TTL), k, e>> :
             tr \in {"AddrRequest"}, k \in {PeerDirectKey, PeerV6Key},
             e \in {EnvOk, [EnvOk EXCEPT !.send_ok = FALSE]} }
    \cup { <<NetPacket("Control", tr, NodeB, NodeA, MAX_TTL, MAX_TTL), ServerKey, EnvOk>> :
             tr \in {"AddrResponse", "Unknown"} }
    \cup { <<Unsealed, PeerDirectKey, EnvOk>> }

HandleControl ==
    /\ ClientHandle(NodeA, ControlInputs)
    /\ UNCHANGED <<cfg, selfNat, OthersHandler>>

NextControl == HandleControl

SpecControl == InitHandler /\ [][NextControl]_vars

\* the last packet handled was a Control packet of the given kinds, on a
\* relay-only node
RelayOnlyHandled(transports) ==
    /\ lastHandle.result # "none"
    /\ cfg[lastHandle.node].relay_only
    /\ lastHandle.pkt.sealed
    /\ lastHandle.pkt.protocol = "Control"
    /\ lastHandle.pkt.transport \in transports

\* C8: on a relay-only node a Control/PunchRequest makes the handler send
\* nothing, so no PunchResponse, and neither a PunchRequest nor a
\* PunchResponse adds, removes or changes a route.
C8_RelayOnlyDrop ==
    /\ RelayOnlyHandled({"PunchRequest"}) => lastHandle.sends = <<>>
    /\ RelayOnlyHandled({"PunchRequest", "PunchResponse"}) =>
          /\ lastHandle.after.table = lastHandle.before.table
          /\ rt[lastHandle.node] = lastHandle.before.table

\* a relay-only node took a PunchRequest straight from B and returned Ok
C8_Witness ==
    /\ RelayOnlyHandled({"PunchRequest"})
    /\ lastHandle.result = "Ok"
    /\ lastHandle.key = PeerDirectKey
    /\ lastHandle.pkt.ttl = lastHandle.pkt.source_ttl
    /\ lastHandle.env.send_ok

\* C9: on a relay-only node every route of the route table, all of them put
\* there by the client packet handler, has a metric above 1.
C9_RelayOnlyMetrics ==
    \A n \in Nodes :
        cfg[n].relay_only => \A r \in rt[n] : r.metric > 1

\* ---- the idle sweep of node A over a route table and a status drawn at
\* ---- the start, while the read times of its routes run out
GatewayKey2 == RouteKey(1, ServerAddr, FALSE)

IdleRoutes ==
    { RouteFromDefaultRt(GatewayIp, ServerKey, 1),
      RouteFromDefaultRt(GatewayIp, GatewayKey2, 1),
      RouteFromDefaultRt(NodeB, ServerKey, 2),
      RouteFromDefaultRt(NodeB, PeerDirectKey, 1) }

InitIdle ==
    /\ cfg = [n \in Nodes |-> DefaultCfg(n)]
    /\ \E table \in SUBSET IdleRoutes :
         rt = [n \in Nodes |-> IF n = NodeA THEN table ELSE {}]
    /\ stale = [n \in Nodes |-> {}]
    /\ \E st \in {"Connecting", "Connected", "Offline"} :
         status = [n \in Nodes |-> IF n = NodeA THEN st ELSE "Connected"]
    /\ errCalls = [n \in Nodes |-> <<>>]
    /\ lastIdle = NoIdle
    /\ HandlerPinned
    /\ NatPinned
    /\ HsPinned
    /\ PunchPinned
    /\ ProxyPinned
    /\ NetPinned
    /\ MorePinned

IdleSweep ==
    /\ IdleRoute0(NodeA)
    /\ UNCHANGED <<cfg, OthersIdle>>

IdleAge ==
    /\ RouteAges(NodeA)
    /\ UNCHANGED <<cfg, rt, status, errCalls, lastIdle, OthersIdle>>

NextIdle == IdleSweep \/ IdleAge

SpecIdle == InitIdle /\ [][NextIdle]_vars

\* the sweep that last ran at a node found Timeout(ip, route)
IdleTimedOut == lastIdle.idle.type = "Timeout"

\* C10: when the idle probe reports Timeout(ip, route) the sweep takes
\* exactly that route out of the route table; if ip is the gateway the
\* status is Connecting afterwards and the error callback has fired once
\* more, with Disconnect; if ip is not the gateway the status and the
\* callbacks are as before.
C10_GatewayRouteTimeout ==
    IdleTimedOut =>
        LET n == lastIdle.node
            ip == lastIdle.idle.ip
        IN  /\ lastIdle.idle.route \in lastIdle.table
            /\ rt[n] = lastIdle.table \ {lastIdle.idle.route}
            /\ ip = cfg[n].virtual_gateway =>
                  /\ status[n] = "Connecting"
                  /\ errCalls[n] = Append(lastIdle.calls, "Disconnect")
            /\ ip # cfg[n].virtual_gateway =>
                  /\ status[n] = lastIdle.status
                  /\ errCalls[n] = lastIdle.calls

\* a connected node lost one of its two gateway routes to a timeout, with a
\* route to B still in the table
C10_Witness ==
    /\ IdleTimedOut
    /\ lastIdle.idle.ip = GatewayIp
    /\ lastIdle.status = "Connected"
    /\ status[NodeA] = "Connecting"
    /\ Len(errCalls[NodeA]) = 1
    /\ \E r \in rt[NodeA] : r.dst = NodeB
    /\ \E r \in rt[NodeA] : r.dst = GatewayIp

\* ---- the event loop of the TCP proxy over one pair, from accept_handle
\* ---- having put it in tcp_map and mapping, with both peers sending and
\* ---- closing as they please
InitProxy ==
    /\ tcp_map = [k \in {SrcFd} |-> ProxyValue_new(SrcFd, DestFd)]
    /\ mapping = [k \in {DestFd} |-> SrcFd]
    /\ sock = [fd \in Fds |-> FreshSocket]
    /\ px = AtPoll
    /\ pxClosed = NotClosed
    /\ NetPinned
    /\ MorePinned
    /\ NatPinned
    /\ HsPinned
    /\ NodePinned
    /\ PunchPinned
    /\ HandlerPinned
    /\ IdlePinned

NextProxy ==
    \/ ProxyPoll
    \/ ProxyRhRead
    \/ ProxyRhWrite
    \/ ProxyWh
    \/ ProxyFinish
    \/ PeerSends
    \/ PeerCloses

SpecProxy == InitProxy /\ [][NextProxy]_vars

\* the bytes read from OtherFd(fd) that are on their way to fd: the chunk
\* readable_handle is writing, or what mid_buf holds
Pending(fd) ==
    IF px.pc = "rw" /\ WritingFd = fd
    THEN BufOf(CurrentValue, OtherFd(fd)) \o px.chunk
    ELSE BufOf(tcp_map[SrcFd], OtherFd(fd))

\* C5: in each direction the bytes written to the outgoing socket are, in
\* order, the first of the bytes read from the incoming socket: none is
\* duplicated, reordered or skipped, whatever the order of the events and
\* the results of the reads and writes. While the pair exists and its
\* outgoing side is not write-closed none is lost either: the bytes read
\* are the bytes written followed by the bytes held for writing.
C5_ByteFidelity ==
    \A fd \in Fds :
        /\ Len(sock[fd].written) <= sock[OtherFd(fd)].nread
        /\ \A i \in 1..Len(sock[fd].written) : sock[fd].written[i] = i
        /\ (SrcFd \in DOMAIN tcp_map /\ ~is_write_closed(StateOf(tcp_map[SrcFd], fd))) =>
              sock[fd].written \o Pending(fd) = [i \in 1..sock[OtherFd(fd)].nread |-> i]

\* all the bytes the originator sent are at the real destination, the last
\* of them from mid_buf by writable_handle, and a byte has gone the other way
C5_Witness ==
    /\ tcp_map # <<>>
    /\ Len(sock[DestFd].written) = MaxBytes
    /\ Len(sock[SrcFd].written) >= 1
    /\ px.pc = "wh"
    /\ px.index = DestFd
    /\ BufOf(tcp_map[SrcFd], SrcFd) = <<>>

\* the pair is at rest between two events
PairAtRest == px.pc = "poll" /\ SrcFd \in DOMAIN tcp_map

\* C6: between events no pair stays in tcp_map with both sides read-closed
\* and both buffers empty; and a pair close has removed has no entry in
\* tcp_map or in mapping for either descriptor, and both its sockets are
\* shut down in both directions.
C6_PairTeardown ==
    /\ PairAtRest =>
          ~(/\ is_read_closed(tcp_map[SrcFd].src_state)
            /\ is_read_closed(tcp_map[SrcFd].dest_state)
            /\ tcp_map[SrcFd].src_buf = <<>>
            /\ tcp_map[SrcFd].dest_buf = <<>>)
    /\ pxClosed # NotClosed =>
          /\ DOMAIN tcp_map \cap Fds = {}
          /\ DOMAIN mapping \cap Fds = {}
          /\ \A fd \in Fds : sock[fd].rd_shut /\ sock[fd].wr_shut

\* both peers closed after their bytes went through, and the pair was removed
\* with both sides read-closed only and both buffers empty
C6_Witness ==
    /\ pxClosed # NotClosed
    /\ pxClosed.src_state = READ_CLOSED
    /\ pxClosed.dest_state = READ_CLOSED
    /\ pxClosed.src_buf = <<>>
    /\ pxClosed.dest_buf = <<>>
    /\ Len(sock[DestFd].written) = MaxBytes
    /\ Len(sock[SrcFd].written) = MaxBytes
    /\ tcp_map = <<>>

\* ---- scenario S1: A and B, both Cone, neither relay-only, online, with no
\* ---- direct route to each other; the route each may have is through the
\* ---- server
RelayedRoute(dst) == Route(dst, ServerKey, 2, 5)

InitS1 ==
    /\ cfg = [n \in Nodes |-> DefaultCfg(n)]
    /\ \E relayed \in SUBSET Nodes :
         rt = [n \in Nodes |-> IF n \in relayed
                               THEN {RelayedRoute(CHOOSE m \in Nodes : m # n)}
                               ELSE {}]
    /\ stale = [n \in Nodes |-> {}]
    /\ peerNat = [n \in Nodes |-> <<>>]
    /\ punchQ = [n \in Nodes |-> [w \in Workers |-> <<>>]]
    /\ selfNat = [n \in Nodes |-> IF n = NodeA THEN SelfNatOf(Ip(1, 1, 1, 1), 40000)
                                  ELSE SelfNatOf(Ip(2, 2, 2, 2), 50000)]
    /\ lastHandle = NoHandle
    /\ NetPinned
    /\ MorePinned
    /\ PunchPinned
    /\ NatPinned
    /\ HsPinned
    /\ IdlePinned
    /\ ProxyPinned

PunchRound == \E n \in Nodes : punch0(n) /\ UNCHANGED OthersS1
PunchWork == \E n \in Nodes, w \in Workers : punch_start(n, w) /\ UNCHANGED OthersS1
NetDelivers == NetDeliver /\ UNCHANGED OthersS1
NetDrops == NetDrop /\ UNCHANGED OthersS1

NextS1 ==
    \/ PunchRound
    \/ PunchWork
    \/ NetDelivers
    \/ NetDrops

SpecS1 == InitS1 /\ [][NextS1]_vars

\* the punch workers block on their queues and run when an item is there;
\* the network loses nothing, so what is in flight arrives
SpecS1Live == SpecS1 /\ WF_vars(PunchWork) /\ WF_vars(NetDelivers \/ NetDrops)

\* A's PunchInfo(reply = false) for B is with the server
RequestInFlight ==
    \E m \in net :
        /\ m.to = NodeB
        /\ m.key = ServerKey
        /\ m.pkt.source = NodeA
        /\ m.pkt.protocol = "OtherTurn"
        /\ m.pkt.info.valid
        /\ ~m.pkt.info.reply

DirectRoute(n, m) == \E r \in rt[n] : r.dst = m /\ r.metric = 1

\* C7: in scenario S1, once A's punch0 has sent its PunchInfo(reply = false)
\* through the server, B's worker and A's worker each come to call
\* Punch::punch for the other, and in the end the route tables of A and B
\* each hold a metric-1 route to the other, with no further punch round.
C7_ConePunchLiveness ==
    /\ RequestInFlight ~> (<<NodeB, NodeA>> \in punched /\ <<NodeA, NodeB>> \in punched)
    /\ RequestInFlight ~> (DirectRoute(NodeA, NodeB) /\ DirectRoute(NodeB, NodeA))

\* after the one round both workers have punched, both tables hold the
\* direct route and nothing is left in flight
C7_Witness ==
    /\ punchRounds[NodeA] = 1
    /\ <<NodeB, NodeA>> \in punched
    /\ <<NodeA, NodeB>> \in punched
    /\ DirectRoute(NodeA, NodeB)
    /\ DirectRoute(NodeB, NodeA)
    /\ NodeB \in opened[NodeA]
    /\ NodeA \in opened[NodeB]
    /\ net = {}

\* octet by octet, a is below b
IpBelow(a, b) ==
    \/ a[1] < b[1]
    \/ a[1] = b[1] /\ a[2] < b[2]
    \/ a[1] = b[1] /\ a[2] = b[2] /\ a[3] < b[3]
    \/ a[1] = b[1] /\ a[2] = b[2] /\ a[3] = b[3] /\ a[4] < b[4]

\* the PunchInfo(reply = false) messages on the wire
Initiations ==
    {m \in net : m.pkt.protocol = "OtherTurn" /\ m.pkt.transport = "Punch"
                    /\ m.pkt.info.valid /\ ~m.pkt.info.reply}

\* C14: whatever the nodes' punch rounds, workers and deliveries do in
\* between, a PunchInfo(reply = false) on the wire goes from a node to a
\* peer whose virtual IP is above the node's own: of two nodes only the
\* lower one initiates.
C14_LowerInitiates ==
    \A m \in Initiations :
        /\ IpBelow(m.pkt.source, m.pkt.destination)
        /\ m.to = m.pkt.destination

\* B has had its punch round while it needed a punch towards A, and the
\* one initiation on the wire is A's for B
C14_Witness ==
    /\ punchRounds[NodeB] = 1
    /\ punchRounds[NodeA] = 1
    /\ ~DirectRoute(NodeB, NodeA)
    /\ Initiations # {}
    /\ \A m \in Initiations : m.pkt.source = NodeA /\ m.pkt.destination = NodeB

(***************************************************************************)
(* A NatInfo built by NatInfo::new and then updated by update_addr         *)
(***************************************************************************)
MaxUpdIps == 2

\* the addresses tried: unspecified, private, and two global ones
UpdIps == {Ip(0, 0, 0, 0), Ip(10, 26, 0, 2), Ip(1, 1, 1, 1), Ip(2, 2, 2, 2)}

InitNatUpd ==
    /\ \E ips \in SeqsUpTo(UpdIps, MaxUpdIps), type \in {"Cone", "Symmetric"} :
         natIn = [NatPinnedIn EXCEPT !.public_ips = ips, !.nat_type = type]
    /\ natInfo = natIn
    /\ natPc = "args"
    /\ HsPinned
    /\ NodePinned
    /\ PunchPinned
    /\ HandlerPinned
    /\ IdlePinned
    /\ ProxyPinned
    /\ NetPinned
    /\ MorePinned

\* one call of update_addr on the NatInfo the constructor gave
NatUpdate ==
    /\ natPc \in {"built", "updated"}
    /\ \E index \in 0..1, ip \in UpdIps, port \in {0, 40001} :
         natInfo' = update_addr(natInfo, index, ip, port)
    /\ natPc' = "updated"
    /\ UNCHANGED <<natIn, OthersNat>>

NextNatUpd == NatNew \/ NatUpdate

SpecNatUpd == InitNatUpd /\ [][NextNatUpd]_vars

\* C18: in every state NatInfo::new and then any calls of update_addr lead
\* to, public_ips holds no multicast, broadcast, unspecified, loopback or
\* private address, and when it holds more than one distinct address the
\* nat_type is Symmetric.
C18_UpdatePreserves ==
    natPc \in {"built", "updated"} =>
        /\ \A i \in 1..Len(natInfo.public_ips) : IsPublicIp(natInfo.public_ips[i])
        /\ Cardinality(Range(natInfo.public_ips)) > 1 => natInfo.nat_type = "Symmetric"

\* the half of it about the addresses alone
NatUpdGlobalOnly ==
    natPc \in {"built", "updated"} =>
        \A i \in 1..Len(natInfo.public_ips) : IsPublicIp(natInfo.public_ips[i])

(***************************************************************************)
(* The fine-range phase of the NatType::Symmetric arm on its own           *)
(***************************************************************************)
MaxRange == 2

\* what a peer's PunchInfo can carry as public_ip_list: other_turn hands the
\* list to NatInfo::new as it came off the wire, and NatInfo::new filters it
\* but does not look for repeats
FineIps ==
    { <<>>, <<PeerPublicIp>>, <<PeerPublicIp, PeerPublicIp2>>,
      <<PeerPublicIp, PeerPublicIp>> }

FineNats ==
    { NatInfo_new(NatArgs(ips, ports, range, NoIp, "none", <<>>, 0, "Symmetric")) :
        ips \in FineIps,
        ports \in {<<>>} \cup {<<p>> : p \in 0..NumPorts},
        range \in 0..MaxRange }

InitFine ==
    /\ NatPinned
    /\ HsPinned
    /\ NodePinned
    /\ PunchPinned
    /\ HandlerPinned
    /\ IdlePinned
    /\ ProxyPinned
    /\ NetPinned
    /\ \E nat \in FineNats : finePhase = [NoFine EXCEPT !.nat = nat]
    /\ sched = SchedStarted
    /\ gw = GwIdle(0)
    /\ req = NoReq
    /\ dom = NoDom
    /\ sweep = NoSweep
    /\ fineWin = NoWindow
    /\ tcpProxy = NoTcpProxy
    /\ proxyCall = NoProxyCall

\* lines 257-276 of Punch::punch: the window, the shuffled slice, and the
\* call of punch_symmetric over it
FineRange ==
    /\ ~finePhase.done
    /\ \E fine \in FineDraws(finePhase.nat) :
       \E fail1 \in 0..SymmetricBudget(fine, finePhase.nat.public_ips, max_k1) :
         LET r1 == punch_symmetric(fine, finePhase.nat.public_ips, max_k1, fail1)
         IN  finePhase' = [finePhase EXCEPT !.done = TRUE, !.ports = fine,
                                            !.sends = r1.sends, !.err = r1.err]
    /\ UNCHANGED <<natVars, hsVars, nodeVars, punchVars, handlerVars, idleVars,
                   proxyVars, netVars, sched, gw, req, dom, sweep, fineWin, tcpProxy, proxyCall>>

NextFine == FineRange
SpecFine == InitFine /\ [][NextFine]_vars

\* the window [P-R, P+R] clamped to [1, 65535], from the claim's words
ClampedWindow(nat) ==
    LET P == IF Len(nat.public_ports) > 0 THEN nat.public_ports[1] ELSE 0
        R == nat.public_port_range
        lo == IF P - R < 1 THEN 1 ELSE P - R
        hi == IF P + R > NumPorts THEN NumPorts ELSE P + R
    IN  lo..hi

FineInWindow ==
    \A i \in 1..Len(finePhase.sends) :
        finePhase.sends[i].addr.port \in ClampedWindow(finePhase.nat)

FineNoRepeat ==
    \A i, j \in 1..Len(finePhase.sends) :
        i # j => finePhase.sends[i].addr # finePhase.sends[j].addr

\* C12: every destination of the fine-range phase has its port in
\* [P-R, P+R] clamped to [1, 65535], and no (public_ip, port) destination is
\* sent to twice within the phase
C12_FineDestinations == FineInWindow /\ FineNoRepeat

(***************************************************************************)
(* The handler of node A fed OtherTurn packets, and its punch workers      *)
(***************************************************************************)
\* the NAT profiles peer B announces: a cone NAT with an earlier and a later
\* public port, and a symmetric NAT
OtherTurnNats ==
    { NatInfo_new(NatArgs(<<PeerPublicIp>>, <<a[1]>>, 0, PeerLocalIp, "none", <<a[1]>>, 0, a[2])) :
        a \in {<<50000, "Cone">>, <<50001, "Cone">>, <<50000, "Symmetric">>} }

\* OtherTurn packets from B: a PunchInfo asking for a reply or being one,
\* one that does not parse, an unknown sub-protocol, and two packets no
\* cipher key opens
OtherTurnPackets ==
    { [NetPacket("OtherTurn", "Punch", NodeB, NodeA, MAX_TTL, MAX_TTL)
          EXCEPT !.info = InfoOfNat(nat, reply)] :
        nat \in OtherTurnNats, reply \in BOOLEAN }
    \cup { [NetPacket("OtherTurn", "Punch", NodeB, NodeA, MAX_TTL, MAX_TTL)
               EXCEPT !.info = InfoOfNat(nat, FALSE), !.sealed = FALSE] :
             nat \in {n \in OtherTurnNats : n.public_ports = <<50001>>} }
    \cup { NetPacket("OtherTurn", "Punch", NodeB, NodeA, MAX_TTL, MAX_TTL),
           NetPacket("OtherTurn", "Unknown", NodeB, NodeA, MAX_TTL, MAX_TTL) }

\* every packet comes relayed by the server; those asking for a reply to
\* the later cone profile also come straight from B, and relayed while
\* send_by_key fails
OtherTurnInputs ==
    { <<pkt, ServerKey, EnvOk>> : pkt \in OtherTurnPackets }
    \cup { <<pkt, a[1], a[2]>> :
             pkt \in {q \in OtherTurnPackets :
                         /\ q.sealed /\ q.info.valid /\ ~q.info.reply
                         /\ q.info.public_port = 50001},
             a \in { <<PeerDirectKey, EnvOk>>,
                     <<ServerKey, [EnvOk EXCEPT !.send_ok = FALSE]>> } }

HandleOtherTurn ==
    /\ ClientHandle(NodeA, OtherTurnInputs)
    /\ UNCHANGED <<cfg, selfNat, OthersHandler>>

\* receiver.recv() in punch_start: worker w of node n takes the message off
\* its queue; the punch it then runs leaves the queues alone
punch_recv(n, w) ==
    /\ punchQ[n][w] # <<>>
    /\ punchQ' = [punchQ EXCEPT ![n][w] = Tail(@)]

PunchRecvs ==
    /\ \E w \in Workers : punch_recv(NodeA, w)
    /\ UNCHANGED <<nodeVars, peerNat, selfNat, lastHandle, OthersHandler>>

NextOtherTurn == HandleOtherTurn \/ PunchRecvs

SpecOtherTurn == InitHandler /\ [][NextOtherTurn]_vars

\* C13: when decrypt_ipv4 fails, handle returns the error and has not
\* stamped the read time, changed a route, sent a packet, dispatched a punch
\* or written to the tun device: the node is as it was.
C13_CryptoDrop ==
    [][ (HandleOtherTurn /\ ~lastHandle'.pkt.sealed) =>
            /\ lastHandle'.result = "Err"
            /\ lastHandle'.sends = <<>>
            /\ lastHandle'.tun = <<>>
            /\ UNCHANGED <<rt, stale, peerNat, punchQ>> ]_vars

\* a packet no key opens came from B over the server while the read time of
\* the route it came by had run out and the queue of its dispatch was empty
C13_Witness ==
    /\ lastHandle.result = "Err"
    /\ ~lastHandle.pkt.sealed
    /\ lastHandle.pkt.info.valid
    /\ ~lastHandle.pkt.info.reply
    /\ ~cfg[NodeA].relay_only
    /\ <<NodeB, lastHandle.key>> \in lastHandle.before.stale
    /\ <<NodeB, lastHandle.key>> \in stale[NodeA]
    /\ lastHandle.before.queues["cone_peer"] = <<>>

\* the last packet handled was a PunchInfo that other_turn dispatched
PunchHandled ==
    /\ lastHandle.result # "none"
    /\ lastHandle.pkt.sealed
    /\ lastHandle.pkt.protocol = "OtherTurn"
    /\ lastHandle.pkt.transport = "Punch"
    /\ lastHandle.pkt.info.valid
    /\ ~cfg[lastHandle.node].relay_only

\* the message of that dispatch and the queue it went for
DispatchMsg ==
    [ip |-> lastHandle.pkt.source, nat |-> NatInfo_new(NatArgsOfInfo(lastHandle.pkt.info))]
DispatchQueue == WorkerFor(~lastHandle.pkt.info.reply, DispatchMsg.nat.nat_type)
DispatchOverflowed ==
    PunchHandled /\ Len(lastHandle.before.queues[DispatchQueue]) >= PUNCH_QUEUE_CAP

QueuesBounded ==
    \A n \in Nodes : \A w \in Workers : Len(punchQ[n][w]) <= PUNCH_QUEUE_CAP

\* C19, as the claim has it: no queue holds more than one message, and the
\* dispatch that finds its queue full leaves the newly dispatched NAT info
\* in it
C19_FreshestKept ==
    /\ QueuesBounded
    /\ DispatchOverflowed => lastHandle.after.queues[DispatchQueue] = <<DispatchMsg>>

\* C19, amended: no queue holds more than one message, and the dispatch
\* that finds its queue full is dropped: every queue is as it was, the
\* older message still in it
C19_OldestKept ==
    /\ QueuesBounded
    /\ DispatchOverflowed => lastHandle.after.queues = lastHandle.before.queues

\* the later cone profile was dispatched while the earlier one was queued
C19_Witness ==
    /\ DispatchOverflowed
    /\ lastHandle.result = "Ok"
    /\ lastHandle.before.queues[DispatchQueue] # <<DispatchMsg>>
    /\ punchQ[NodeA][DispatchQueue] = lastHandle.before.queues[DispatchQueue]

\* the reply other_turn makes: reply = true, this node's NAT profile, sent
\* back to the source over the key the packet came by
PunchReply ==
    Sent([NetPacket("OtherTurn", "Punch", cfg[lastHandle.node].virtual_ip,
                    lastHandle.pkt.source, MAX_TTL, MAX_TTL)
             EXCEPT !.info = InfoOfNat(selfNat[lastHandle.node], TRUE)],
         lastHandle.key, lastHandle.env.send_ok)

\* the queue took the dispatch: it had room, and now holds the message
DispatchAccepted ==
    /\ Len(lastHandle.before.queues[DispatchQueue]) < PUNCH_QUEUE_CAP
    /\ lastHandle.after.queues[DispatchQueue] =
          Append(lastHandle.before.queues[DispatchQueue], DispatchMsg)

\* C20: on a PunchInfo with reply = false, a node not relay-only sends the
\* reply (reply = true, its own NAT profile) on the incoming route key if
\* and only if the punch queue accepted the dispatch; with the queue full
\* it sends nothing.
C20_ReplyGated ==
    (PunchHandled /\ ~lastHandle.pkt.info.reply) =>
        /\ DispatchAccepted => lastHandle.sends = <<PunchReply>>
        /\ ~DispatchAccepted =>
              /\ lastHandle.sends = <<>>
              /\ lastHandle.after.queues = lastHandle.before.queues

\* a request was taken and answered straight to B, and one found the queue
\* full
C20_Witness ==
    /\ PunchHandled
    /\ ~lastHandle.pkt.info.reply
    /\ DispatchAccepted
    /\ lastHandle.key = PeerDirectKey
    /\ lastHandle.sends = <<PunchReply>>

C20_WitnessFull ==
    /\ PunchHandled
    /\ ~lastHandle.pkt.info.reply
    /\ ~DispatchAccepted
    /\ lastHandle.result = "Ok"

(***************************************************************************)
(* The maintenance chains of node A and StopManager::stop                  *)
(***************************************************************************)
MaxTicks == 3

\* Scheduler::timeout(delay, f): once stop() has been called it returns
\* false and drops f; before that it queues f to run after `delay`
Scheduler_timeout(s) == ~s.stopped

\* the delays the tasks ask for, in ms: idle_route0 gives 100 after a
\* timeout, the sleep next_idle asks for (1000 here) or 3000 with no route;
\* idle_gateway_ always 5000; punch_request 3000 when not online, else the
\* entry of its table its count picks
SLEEP_TABLE == <<3, 5, 7, 11, 13, 17, 19, 23, 29>>
TaskDelays(t, count) ==
    CASE t = "idle_route" -> {100, 1000, 3000}
      [] t = "idle_gateway" -> {5000}
      [] t = "punch_request" -> {3000, SLEEP_TABLE[(count % Len(SLEEP_TABLE)) + 1] * 1000}

\* a mutant of AfterTick: the task goes round again when timeout says no
AfterTick_Retry(rs) == "pending"

\* `let rs = scheduler.timeout(..); if !rs { log::info!(..) }`: the chain
\* goes on only through the closure handed to timeout
AfterTick(rs) == IF rs THEN "pending" ELSE "ended"

\* one tick of task t, idle_route, idle_gateway_ or punch_request: the body
\* runs, then the task hands itself to scheduler.timeout
TaskTick(t) ==
    /\ sched.task[t].state = "pending"
    /\ sched.stopped \/ sched.task[t].count < MaxTicks
    /\ \E delay \in TaskDelays(t, sched.task[t].count) :
         sched' = [sched EXCEPT !.task[t] =
                      Chain(AfterTick(Scheduler_timeout(sched)), delay,
                            IF @.count < MaxTicks THEN @.count + 1 ELSE @.count,
                            IF sched.stopped /\ @.after < MaxTicks THEN @.after + 1 ELSE @.after)]
    /\ UNCHANGED <<natVars, hsVars, nodeVars, punchVars, handlerVars, idleVars,
                   proxyVars, netVars, finePhase, gw, req, dom, sweep, fineWin, tcpProxy, proxyCall>>

\* StopManager::stop()
SchedStop ==
    /\ ~sched.stopped
    /\ sched' = [sched EXCEPT !.stopped = TRUE]
    /\ UNCHANGED <<natVars, hsVars, nodeVars, punchVars, handlerVars, idleVars,
                   proxyVars, netVars, finePhase, gw, req, dom, sweep, fineWin, tcpProxy, proxyCall>>

InitSched ==
    /\ NatPinned /\ HsPinned /\ NodePinned /\ PunchPinned /\ HandlerPinned
    /\ IdlePinned /\ ProxyPinned /\ NetPinned /\ MorePinned

IdleRouteTick == TaskTick("idle_route")
IdleGatewayTick == TaskTick("idle_gateway")
PunchRequestTick == TaskTick("punch_request")

NextSched == IdleRouteTick \/ IdleGatewayTick \/ PunchRequestTick \/ SchedStop

SpecSched == InitSched /\ [][NextSched]_vars

\* the scheduler thread runs every task whose timer has run out
SpecSchedLive ==
    SpecSched /\ WF_vars(IdleRouteTick) /\ WF_vars(IdleGatewayTick)
              /\ WF_vars(PunchRequestTick)

AllEnded == \A t \in Tasks : sched.task[t].state = "ended"

\* C15: a task whose timeout() returned false is not scheduled again and
\* its body never runs again; after stop() each chain runs at most one more
\* tick, and in the end every chain has stopped for good.
C15_ChainsStop ==
    /\ [][\A t \in Tasks : sched.task[t].state = "ended" =>
                              sched'.task[t] = sched.task[t]]_vars
    /\ [](\A t \in Tasks : /\ sched.task[t].after <= 1
                            /\ sched.task[t].state = "ended" => sched.stopped)
    /\ (sched.stopped ~> [](AllEnded))

\* stop() came after the chains had run; each ran one more tick and ended
C15_Witness ==
    /\ sched.stopped
    /\ AllEnded
    /\ \A t \in Tasks : sched.task[t].count >= 2 /\ sched.task[t].after = 1

(***************************************************************************)
(* The gateway watchdog of node A: idle_gateway_ and check_gateway_channel *)
(***************************************************************************)
\* the 5 s idle_gateway_ asks scheduler.timeout for
GATEWAY_PERIOD == 5
\* how often a send may fail or a handshake be lost, and how often the
\* gateway route is lost
MaxFails == 2
MaxLosses == 1

\* ConnectStatus::offline(): the node is not connected
offline(st) == st # "Connected"

\* a mutant of WatchdogActs: the test is turned around
WatchdogActs_Negated(cur) == ~offline(cur.status)

\* `if current_device.status.offline()` in check_gateway_channel
WatchdogActs(cur) == offline(cur.status)

\* Handshake::send on a clock `age` seconds old: the rate limit, then the
\* outcome of building and sending; the age of the clock afterwards
Handshake_send(age, outcome) ==
    IF HsRateLimited(0 - age, 0)
    THEN [result |-> "Ok", sent |-> FALSE, age |-> age]
    ELSE IF outcome = "sent"
    THEN [result |-> "Ok", sent |-> TRUE, age |-> 0]
    ELSE [result |-> "Err", sent |-> FALSE, age |-> 0 - HsFailedClock(0 - age, 0)]

\* how the TCP reconnect of check_gateway_channel can go
TcpOutcomes == {"added", "build_err", "connect_err", "nonblocking_err", "add_err"}

\* a mutant of NeedsTcp: a TCP node reconnects on every tick
NeedsTcp_Always(hs_result, is_tcp) == is_tcp

\* lines 165-168 of check_gateway_channel: the TCP reconnect is inside
\* `if let Err(e) = handshake.send(..)` and `if context.is_main_tcp()`
NeedsTcp(hs_result, is_tcp) == hs_result = "Err" /\ is_tcp

\* check_gateway_channel for a node whose main channel is TCP or not, with
\* connect_count `count` and the handshake clock `age` seconds old; the
\* server name resolves to the address the node already has
check_gateway_channel(cur, is_tcp, count, age, outcome, tcp) ==
    IF ~WatchdogActs(cur)
    THEN GwResult("Ok", FALSE, count, age, FALSE, FALSE, FALSE, "none")
    ELSE LET hs == Handshake_send(age, outcome)
         IN  IF ~NeedsTcp(hs.result, is_tcp)
             THEN GwResult("Ok", TRUE, count + 1, hs.age, hs.sent, FALSE,
                           hs.result = "Err", "none")
             ELSE IF tcp \in {"build_err", "connect_err", "nonblocking_err"}
             THEN GwResult("Err", TRUE, count + 1, hs.age, FALSE, FALSE,
                           hs.result = "Err", tcp)
             ELSE GwResult("Ok", TRUE, count + 1, hs.age, FALSE, tcp = "added",
                           hs.result = "Err", tcp)

Sat(x, max) == IF x < max THEN x + 1 ELSE x

\* a second passes; the scheduler does not let a due tick wait, and what is
\* on the wire has arrived or is lost before the second is over
GwTime ==
    /\ gw.due > 0
    /\ ~gw.wire
    /\ gw' = [gw EXCEPT !.due = @ - 1,
                        !.hsAge = Sat(@, HS_INTERVAL),
                        !.lossAge = IF @ < 0 THEN @ ELSE Sat(@, GATEWAY_PERIOD + 1)]
    /\ UNCHANGED <<natVars, hsVars, nodeVars, punchVars, handlerVars, idleVars,
                   proxyVars, netVars, finePhase, sched, req, dom, sweep, fineWin, tcpProxy, proxyCall>>

\* one tick of idle_gateway_: idle_gateway0 runs check_gateway_channel, and
\* the task asks for its next tick in 5 s
GwTick ==
    /\ gw.due = 0
    /\ \E outcome \in {"sent"} \cup (IF gw.fails < MaxFails
                                     THEN {"build_err", "send_err"} ELSE {}) :
       \E tcp \in (IF cfg[NodeA].is_tcp THEN TcpOutcomes
                   ELSE {"none"}) :
         LET r == check_gateway_channel(CurrentDevice(NodeA), cfg[NodeA].is_tcp,
                                        gw.last.count, gw.hsAge, outcome, tcp)
         IN  gw' = [gw EXCEPT !.due = GATEWAY_PERIOD,
                              !.hsAge = r.age,
                              !.wire = @ \/ r.sent \/ r.tcp_added,
                              !.tries = IF r.acted THEN @ + 1 ELSE @,
                              !.fails = IF r.acted /\ outcome # "sent" THEN @ + 1 ELSE @,
                              !.last = r]
    /\ UNCHANGED <<natVars, hsVars, nodeVars, punchVars, handlerVars, idleVars,
                   proxyVars, netVars, finePhase, sched, req, dom, sweep, fineWin, tcpProxy, proxyCall>>

\* the read time of the gateway route runs out
GwAge ==
    /\ Len(errCalls[NodeA]) < MaxLosses
    /\ RouteAges(NodeA)
    /\ UNCHANGED <<cfg, rt, status, errCalls, lastIdle, OthersIdle>>

\* idle_route0 sweeps; when it takes the gateway route out the loss begins
GwSweep ==
    /\ IdleRoute0(NodeA)
    /\ gw' = IF status'[NodeA] # status[NodeA]
             THEN [gw EXCEPT !.lossAge = 0, !.tries = 0]
             ELSE gw
    /\ UNCHANGED <<cfg, natVars, hsVars, punchVars, handlerVars, proxyVars, netVars,
                   finePhase, sched, req, dom, sweep, fineWin, tcpProxy, proxyCall>>

GatewayRoute == RouteFromDefaultRt(GatewayIp, ServerKey, 1)

\* the server's answer to the handshake comes in: the node is Connected
\* again and holds a fresh route to the gateway
ServerAck ==
    /\ gw.wire
    /\ gw' = [gw EXCEPT !.wire = FALSE, !.lossAge = 0 - 1]
    /\ status' = [status EXCEPT ![NodeA] = "Connected"]
    /\ rt' = [rt EXCEPT ![NodeA] = add_route(@, GatewayRoute)]
    /\ stale' = [stale EXCEPT ![NodeA] = @ \ {<<GatewayIp, ServerKey>>}]
    /\ UNCHANGED <<cfg, errCalls, lastIdle, natVars, hsVars, punchVars, handlerVars,
                   proxyVars, netVars, finePhase, sched, req, dom, sweep, fineWin, tcpProxy, proxyCall>>

\* the handshake does not reach the server
HsLost ==
    /\ gw.wire
    /\ gw.fails < MaxFails
    /\ gw' = [gw EXCEPT !.wire = FALSE, !.fails = @ + 1]
    /\ UNCHANGED <<natVars, hsVars, nodeVars, punchVars, handlerVars, idleVars,
                   proxyVars, netVars, finePhase, sched, req, dom, sweep, fineWin, tcpProxy, proxyCall>>

\* scenario S4: A is Connected and holds its one route to the gateway; the
\* watchdog is anywhere in its period; the main channel is UDP or TCP
InitGw ==
    /\ \E tcp \in BOOLEAN :
         cfg = [n \in Nodes |-> [DefaultCfg(n) EXCEPT !.is_tcp = tcp]]
    /\ rt = [n \in Nodes |-> IF n = NodeA THEN {GatewayRoute} ELSE {}]
    /\ stale = [n \in Nodes |-> {}]
    /\ IdlePinned
    /\ finePhase = NoFine
    /\ sched = SchedStarted
    /\ \E due \in 0..GATEWAY_PERIOD : gw = GwIdle(due)
    /\ req = NoReq
    /\ dom = NoDom
    /\ sweep = NoSweep
    /\ fineWin = NoWindow
    /\ tcpProxy = NoTcpProxy
    /\ proxyCall = NoProxyCall
    /\ NatPinned /\ HsPinned /\ PunchPinned /\ HandlerPinned /\ ProxyPinned
    /\ NetPinned

NextGw == GwTime \/ GwTick \/ GwAge \/ GwSweep \/ ServerAck \/ HsLost

SpecGw == InitGw /\ [][NextGw]_vars

\* the clock runs, the scheduler runs the watchdog when it is due, the idle
\* sweep runs, and the server answers a handshake that reaches it
SpecGwLive ==
    SpecGw /\ WF_vars(GwTime) /\ WF_vars(GwTick) /\ WF_vars(GwSweep)
           /\ WF_vars(ServerAck)

PunchInfoSends ==
    {i \in 1..Len(lastHandle.sends) :
        /\ lastHandle.sends[i].pkt.protocol = "OtherTurn"
        /\ lastHandle.sends[i].pkt.transport = "Punch"}

\* C21: a PunchInfo with reply = true makes the handler send nothing, and
\* one with reply = false at most one PunchInfo, which has reply = true: an
\* initiation is answered at most once and the answer is not answered, so
\* the exchange ends after two messages at most.
C21_NoPingPong ==
    PunchHandled =>
        /\ lastHandle.pkt.info.reply => lastHandle.sends = <<>>
        /\ ~lastHandle.pkt.info.reply =>
              /\ Len(lastHandle.sends) <= 1
              /\ \A i \in PunchInfoSends : lastHandle.sends[i].pkt.info.reply

\* a reply from B was taken, queued for the worker, and nothing was sent
C21_Witness ==
    /\ PunchHandled
    /\ lastHandle.pkt.info.reply
    /\ lastHandle.result = "Ok"
    /\ lastHandle.before.queues[DispatchQueue] = <<>>
    /\ lastHandle.after.queues[DispatchQueue] = <<DispatchMsg>>
    /\ lastHandle.sends = <<>>

(***************************************************************************)
(* The punch requester: one call of punch0 over a device list              *)
(***************************************************************************)
\* the peers of the device list above node A
MaxPeers == 3

\* PeerDeviceInfo {virtual_ip, status}
PeerDeviceInfo(ip, online) == [virtual_ip |-> ip, online |-> online]

\* the addresses the device list may hold: one below node A, the others
\* above it
ReqPeers == {Ip(10, 25, 0, 9)} \cup {Ip(10, 26, 0, 2 + k) : k \in 1..MaxPeers}

\* the device lists: any of the addresses, each online or offline
DeviceLists ==
    {{PeerDeviceInfo(ip, ip \in on) : ip \in ips} :
        <<ips, on>> \in (SUBSET ReqPeers) \X (SUBSET ReqPeers)}

\* list.shuffle: every order of the list
Shuffles(S) ==
    {q \in [1..Cardinality(S) -> S] : \A i, j \in 1..Cardinality(S) : i # j => q[i] # q[j]}

\* lines 190-197 of punch0: the entries that are online and above current_ip
punch0_list(devices, current_ip) ==
    {info \in devices : info.online /\ IpGt(info.virtual_ip, current_ip)}

\* a mutant of PunchLimitHit: the loop never breaks
PunchLimitHit_Never(count) == FALSE

\* lines 220-223 of punch0: count > 2 ends the loop
PunchLimitHit(count) == count > 2

RECURSIVE punch0_for(_, _, _, _, _)
\* the for loop of punch0 at node n, lines 210-236: list is what is left of
\* the shuffled list, count the counter, sends what send_default has taken,
\* and fail_at the send that returns an error (0: none does)
punch0_for(n, list, count, fail_at, sends) ==
    IF list = <<>>
    THEN [result |-> "Ok", sends |-> sends]
    ELSE LET info == Head(list)
         IN  IF \/ ~info.online
                \/ ~IpGt(info.virtual_ip, cfg[n].virtual_ip)
                \/ ~need_punch(n, info.virtual_ip)
             THEN punch0_for(n, Tail(list), count, fail_at, sends)
             ELSE IF PunchLimitHit(count + 1)
             THEN [result |-> "Ok", sends |-> sends]
             ELSE IF Len(sends) + 1 = fail_at
             THEN [result |-> "Err", sends |-> sends]
             ELSE punch0_for(n, Tail(list), count + 1, fail_at,
                             Append(sends, [pkt |-> punch_packet(cfg[n].virtual_ip,
                                                       selfNat[n], info.virtual_ip),
                                            addr |-> ServerAddr]))

\* punch_request at node A, lines 155-159: punch0 runs when the node is
\* online, over the device list as it is and in any order the shuffle gives
PunchRequestCall ==
    /\ ~req.called
    /\ status[NodeA] = "Connected"
    /\ \E list \in Shuffles(punch0_list(req.devices, cfg[NodeA].virtual_ip)), fail_at \in 0..2 :
         LET r == punch0_for(NodeA, list, 0, fail_at, <<>>)
         IN  /\ fail_at <= Len(r.sends) + 1
             /\ req' = [req EXCEPT !.called = TRUE, !.sends = r.sends, !.result = r.result]
    /\ UNCHANGED <<natVars, hsVars, nodeVars, punchVars, handlerVars, idleVars,
                   proxyVars, netVars, finePhase, sched, gw, dom, sweep, fineWin, tcpProxy, proxyCall>>

\* the route tables of node A: a direct route to any of the peers
ReqTables ==
    {{RouteFromDefaultRt(ip, RouteKey(0, Addr4(Ip(9, 9, 9, 9), 40000), FALSE), 1) :
         ip \in ips} : ips \in SUBSET ReqPeers}

InitReq ==
    /\ cfg = [n \in Nodes |-> DefaultCfg(n)]
    /\ \E table \in ReqTables : rt = [n \in Nodes |-> IF n = NodeA THEN table ELSE {}]
    /\ stale = [n \in Nodes |-> {}]
    /\ \E devices \in DeviceLists : req = [NoReq EXCEPT !.devices = devices]
    /\ finePhase = NoFine
    /\ sched = SchedStarted
    /\ gw = GwIdle(0)
    /\ dom = NoDom
    /\ sweep = NoSweep
    /\ fineWin = NoWindow
    /\ NatPinned /\ HsPinned /\ PunchPinned /\ HandlerPinned /\ IdlePinned
    /\ ProxyPinned /\ NetPinned
    /\ tcpProxy = NoTcpProxy
    /\ proxyCall = NoProxyCall

NextReq == PunchRequestCall

SpecReq == InitReq /\ [][NextReq]_vars

\* the peers of the device list a tick may pick: online, above node A, and
\* without a direct route in the table
Pickable ==
    {info.virtual_ip : info \in {d \in req.devices :
        /\ d.online
        /\ \E k \in 1..4 : /\ d.virtual_ip[k] > NodeA[k]
                           /\ \A m \in 1..(k - 1) : d.virtual_ip[m] = NodeA[m]
        /\ ~\E r \in rt[NodeA] : r.dst = d.virtual_ip /\ r.metric = 1}}

\* C22: one call of punch0 sends at most two PunchInfo packets; each goes
\* to the server address with reply = false, and its target is a peer of
\* the device list that is online, has a virtual IP above the local one and
\* needs a punch
C22_TwoRequests ==
    req.called =>
        /\ Len(req.sends) <= 2
        /\ \A i \in 1..Len(req.sends) :
             /\ req.sends[i].addr = ServerAddr
             /\ req.sends[i].pkt.protocol = "OtherTurn"
             /\ req.sends[i].pkt.transport = "Punch"
             /\ ~req.sends[i].pkt.info.reply
             /\ req.sends[i].pkt.destination \in Pickable

\* a call that found three peers to pick from and sent to two of them
C22_Witness ==
    /\ req.called
    /\ Cardinality(Pickable) >= 3
    /\ Len(req.sends) = 2
    /\ req.sends[1].pkt.destination # req.sends[2].pkt.destination
    /\ req.result = "Ok"

(***************************************************************************)
(* The Control arm of the client packet handler: Ping and the punch pair   *)
(***************************************************************************)
\* the last packet handled was a Control packet of one of the given kinds
\* that passed the cipher
ControlHandled(transports) ==
    /\ lastHandle.result # "none"
    /\ lastHandle.pkt.sealed
    /\ lastHandle.pkt.protocol = "Control"
    /\ lastHandle.pkt.transport \in transports

\* the route of the route table of the handling node to the packet's source
\* on the route key the packet came in on
RouteOnKey(table) ==
    {r \in table : r.dst = lastHandle.pkt.source /\ r.key = lastHandle.key}

\* C23: a Control/Ping from S is answered with exactly one Pong on the same
\* route key, from the local virtual IP to S with the TTL back at MAX_TTL;
\* a route (route key, metric = source_ttl - ttl + 1) to S is added only
\* when the table has no route to S with that key, and none is added when
\* the send of the Pong fails.
C23_PingAnswered ==
    ControlHandled({"Ping"}) =>
        /\ Len(lastHandle.sends) = 1
        /\ lastHandle.sends[1].key = lastHandle.key
        /\ lastHandle.sends[1].pkt.protocol = "Control"
        /\ lastHandle.sends[1].pkt.transport = "Pong"
        /\ lastHandle.sends[1].pkt.source = cfg[lastHandle.node].virtual_ip
        /\ lastHandle.sends[1].pkt.destination = lastHandle.pkt.source
        /\ lastHandle.sends[1].pkt.ttl = MAX_TTL
        /\ lastHandle.after.table =
             IF lastHandle.sends[1].ok /\ RouteOnKey(lastHandle.before.table) = {}
             THEN lastHandle.before.table \cup
                    {RouteFromDefaultRt(lastHandle.pkt.source, lastHandle.key,
                        (lastHandle.pkt.source_ttl + 256 - lastHandle.pkt.ttl + 1) % 256)}
             ELSE lastHandle.before.table

\* C24: for every Control packet that reaches control, source_ttl - ttl + 1
\* on 8 bits neither underflows nor overflows: ttl <= source_ttl, and the
\* metric is at least 1.
C24_MetricSafe ==
    ControlHandled({"Ping", "Pong", "PunchRequest", "PunchResponse", "AddrRequest", "AddrResponse"}) =>
        /\ lastHandle.pkt.ttl <= lastHandle.pkt.source_ttl
        /\ ~Metric(lastHandle.pkt).overflow
        /\ Metric(lastHandle.pkt).value >= 1

\* C25: on a node that is not relay-only, after a Control/PunchResponse from
\* S on route key K the route table has a route to S with key K and metric
\* 1; after a Control/PunchRequest from S on K the handler has sent one
\* PunchResponse with TTL 1 on K and the table has that route.
C25_DirectRoute ==
    /\ ControlHandled({"PunchRequest", "PunchResponse"}) /\ ~cfg[lastHandle.node].relay_only =>
          \E r \in RouteOnKey(rt[lastHandle.node]) : r.metric = 1
    /\ ControlHandled({"PunchRequest"}) /\ ~cfg[lastHandle.node].relay_only =>
          /\ Len(lastHandle.sends) = 1
          /\ lastHandle.sends[1].ok
          /\ lastHandle.sends[1].key = lastHandle.key
          /\ lastHandle.sends[1].pkt.transport = "PunchResponse"
          /\ lastHandle.sends[1].pkt.ttl = 1

(***************************************************************************)
(* The allow-list of the IpTurn arm                                        *)
(***************************************************************************)
\* the last packet handled was an IpTurn/Ipv4 packet whose inner IPv4
\* packet parsed and names another destination than the overlay header
ForwardedHandled ==
    /\ lastHandle.result # "none"
    /\ lastHandle.pkt.sealed
    /\ lastHandle.pkt.protocol = "IpTurn"
    /\ lastHandle.pkt.transport = "Ipv4"
    /\ lastHandle.pkt.inner.valid
    /\ lastHandle.pkt.inner.destination_ip # lastHandle.pkt.destination

\* the inner destination of the last packet is a broadcast, a multicast,
\* the unspecified address or the subnet broadcast
InnerToAll ==
    \/ lastHandle.pkt.inner.destination_ip = Ip(255, 255, 255, 255)
    \/ lastHandle.pkt.inner.destination_ip[1] \in 224..239
    \/ lastHandle.pkt.inner.destination_ip = Ip(0, 0, 0, 0)
    \/ lastHandle.pkt.inner.destination_ip = cfg[lastHandle.node].broadcast_ip

\* C26: an IpTurn/Ipv4 packet whose inner destination differs from the
\* overlay destination, is none of broadcast, multicast, unspecified and
\* subnet broadcast, and is denied by the allow-list is dropped: the handler
\* returns Ok whatever the IP proxy would have answered, and writes nothing
\* to the tun device. With a broadcast, multicast, unspecified or subnet
\* broadcast inner destination the packet is written to the tun device
\* whatever the allow-list and the proxy would have answered.
C26_AllowList ==
    ForwardedHandled =>
        /\ ~InnerToAll /\ ~lastHandle.env.allow =>
              /\ lastHandle.result = "Ok"
              /\ lastHandle.tun = <<>>
              /\ lastHandle.sends = <<>>
        /\ InnerToAll =>
              /\ Len(lastHandle.tun) = 1
              /\ lastHandle.tun[1].payload = lastHandle.pkt.inner
              /\ lastHandle.sends = <<>>
              /\ lastHandle.result = IF lastHandle.env.tun_ok THEN "Ok" ELSE "Err"

\* a TCP segment for an external address came in on a node with the IP
\* proxy on, the allow-list denied it, and the proxy would have failed
C26_Witness ==
    /\ ForwardedHandled
    /\ ~InnerToAll
    /\ ~lastHandle.env.allow
    /\ lastHandle.env.proxy = "err"
    /\ cfg[lastHandle.node].ip_proxy
    /\ lastHandle.pkt.inner.protocol = "Tcp"
    /\ lastHandle.result = "Ok"

(***************************************************************************)
(* The TCP reconnect of the gateway watchdog                               *)
(***************************************************************************)
\* the last tick of the watchdog found node A, a node with TCP as its main
\* transport, not connected
TcpTick == gw.last.acted /\ cfg[NodeA].is_tcp

MaxWrites == 2

\* the address the server name resolves to after the server has moved
MovedServerAddr == Addr4(Ip(4, 4, 4, 4), 29872)

\* what config.server_addr.to_socket_addrs() gives: an error, no address,
\* the address the node has, or another one
Resolutions == {"err", "empty", "same", "moved"}

\* a mutant of compare_exchange: a plain store
compare_exchange_Store(cell, current, new) == [cell |-> new, result |-> "Ok"]

\* AtomicCell::compare_exchange(current, new), line 199: the cell takes
\* `new` only when it holds `current`
compare_exchange(cell, current, new) ==
    IF cell = current
    THEN [cell |-> new, result |-> "Ok"]
    ELSE [cell |-> cell, result |-> "Err"]

\* lines 192-196 of domain_request0: the load, the lookup of the server
\* name, and the comparison with connect_server
DomLoad ==
    /\ dom.pc = "start"
    /\ \E r \in Resolutions :
         LET current_dev == dom.cell
             addr == IF r = "moved"
                     THEN (IF current_dev.connect_server = ServerAddr
                           THEN MovedServerAddr ELSE ServerAddr)
                     ELSE current_dev.connect_server
         IN  dom' = IF r = "moved"
                    THEN [dom EXCEPT !.pc = "loaded", !.snap = current_dev,
                                     !.addr = addr, !.rs = "none"]
                    ELSE [dom EXCEPT !.pc = "done", !.snap = current_dev,
                                     !.addr = addr, !.rs = "none",
                                     !.ret = current_dev]
    /\ UNCHANGED <<natVars, hsVars, nodeVars, punchVars, handlerVars, idleVars,
                   proxyVars, netVars, finePhase, sched, gw, req, sweep, fineWin, tcpProxy, proxyCall>>

\* lines 197-200 and 208 of domain_request0: the compare_exchange of the
\* snapshot against the snapshot with the new address, and the copy returned
DomExchange ==
    /\ dom.pc = "loaded"
    /\ LET tmp == [dom.snap EXCEPT !.connect_server = dom.addr]
           r == compare_exchange(dom.cell, dom.snap, tmp)
       IN  dom' = [dom EXCEPT !.pc = "done", !.cell = r.cell, !.rs = r.result,
                              !.ret = tmp, !.held = @ \cup {r.cell}]
    /\ UNCHANGED <<natVars, hsVars, nodeVars, punchVars, handlerVars, idleVars,
                   proxyVars, netVars, finePhase, sched, gw, req, sweep, fineWin, tcpProxy, proxyCall>>

\* another writer makes its transition: a new status, or the virtual IP
\* the server has assigned
DomOtherWrite ==
    /\ dom.writes < MaxWrites
    /\ \E new \in {[dom.cell EXCEPT !.status = st] : st \in {"Connecting", "Connected", "Offline"}}
                  \cup {[dom.cell EXCEPT !.virtual_ip = NodeC, !.status = "Connected"]} :
         /\ new # dom.cell
         /\ dom' = [dom EXCEPT !.cell = compare_exchange(dom.cell, dom.cell, new).cell,
                               !.writes = @ + 1, !.held = @ \cup {new}]
    /\ UNCHANGED <<natVars, hsVars, nodeVars, punchVars, handlerVars, idleVars,
                   proxyVars, netVars, finePhase, sched, gw, req, sweep, fineWin, tcpProxy, proxyCall>>

\* a reader loads the cell
DomRead ==
    /\ dom.seen # dom.cell
    /\ dom' = [dom EXCEPT !.seen = dom.cell]
    /\ UNCHANGED <<natVars, hsVars, nodeVars, punchVars, handlerVars, idleVars,
                   proxyVars, netVars, finePhase, sched, gw, req, sweep, fineWin, tcpProxy, proxyCall>>

InitDom ==
    /\ cfg = [n \in Nodes |-> DefaultCfg(n)]
    /\ rt = [n \in Nodes |-> {}]
    /\ stale = [n \in Nodes |-> {}]
    /\ \E st \in {"Connecting", "Offline"}, a \in {ServerAddr, MovedServerAddr} :
         dom = [NoDom EXCEPT !.cell = DeviceCell(NodeA, st, a),
                             !.snap = DeviceCell(NodeA, st, a),
                             !.ret = DeviceCell(NodeA, st, a),
                             !.addr = a,
                             !.held = {DeviceCell(NodeA, st, a)},
                             !.seen = DeviceCell(NodeA, st, a)]
    /\ finePhase = NoFine
    /\ sched = SchedStarted
    /\ gw = GwIdle(0)
    /\ req = NoReq
    /\ sweep = NoSweep
    /\ fineWin = NoWindow
    /\ NatPinned /\ HsPinned /\ PunchPinned /\ HandlerPinned /\ IdlePinned
    /\ ProxyPinned /\ NetPinned
    /\ tcpProxy = NoTcpProxy
    /\ proxyCall = NoProxyCall

NextDom == DomLoad \/ DomExchange \/ DomOtherWrite \/ DomRead

SpecDom == InitDom /\ [][NextDom]_vars

\* C28: the compare_exchange of domain_request0 leaves the cell as it is
\* when the cell no longer holds the snapshot the call loaded, and otherwise
\* changes connect_server alone, so that no status and no virtual IP of
\* another writer is rolled back; and what a reader loads is always a value
\* one writer has put there whole.
C28_LostRace ==
    /\ [][DomExchange =>
            /\ dom.cell # dom.snap => dom'.cell = dom.cell /\ dom'.rs = "Err"
            /\ dom.cell = dom.snap =>
                  dom'.cell = [dom.cell EXCEPT !.connect_server = dom.addr]
            /\ dom'.cell.status = dom.cell.status
            /\ dom'.cell.virtual_ip = dom.cell.virtual_ip]_vars
    /\ [](dom.seen \in dom.held)

\* the call lost the race: another writer has brought the node online under
\* a new virtual IP since the load, the exchange failed, the cell holds the
\* other writer's value with the old server address, and a reader has
\* loaded it
C28_Witness ==
    /\ dom.pc = "done"
    /\ dom.rs = "Err"
    /\ dom.writes >= 1
    /\ dom.cell.status = "Connected"
    /\ dom.cell.virtual_ip = NodeC
    /\ dom.snap.status # "Connected"
    /\ dom.cell.connect_server = dom.snap.connect_server
    /\ dom.addr # dom.cell.connect_server
    /\ dom.seen = dom.cell

(***************************************************************************)
(* The TCP path and the Cone arm of Punch::punch                           *)
(***************************************************************************)
\* Punch::punch has run past its gate
PunchRan == lastPunch.result # "none" /\ lastPunch.gate

\* where an address stands in the order of the TCP path: the peer's IPv6
\* address, its local IPv4 address, its public IPv4 address
TcpRank(addr) ==
    IF addr.fam = 6 THEN 1 ELSE IF addr.ip = lastPunch.nat.local_ipv4 THEN 2 ELSE 3

\* the ranks of the addresses the TCP path has for the peer
TcpRanks ==
    (IF lastPunch.nat.ipv6 # "none" THEN {1} ELSE {})
    \cup (IF lastPunch.nat.local_ipv4 # NoIp THEN {2} ELSE {})
    \cup (IF lastPunch.nat.nat_type = "Cone" /\ Len(lastPunch.nat.public_ips) = 1
          THEN {3} ELSE {})

\* C29: with TCP punching on and the peer's tcp_port not 0, the connect
\* attempts go to the peer's IPv6 address, then its local IPv4 address, then
\* its public IPv4 address, all with tcp_port, the last only for a Cone peer
\* with exactly one public IP; the attempt that connects and is taken by
\* try_add_socket is the last one, and punch then returns Ok without a UDP
\* send; with tcp_port 0, or TCP punching off, no attempt is made.
C29_TcpPath ==
    PunchRan =>
        LET t == lastPunch.tcp
            on == cfg[lastPunch.node].is_tcp /\ lastPunch.nat.tcp_port # 0
            tried == {TcpRank(t[i]) : i \in 1..Len(t)}
        IN  /\ ~on => t = <<>> /\ lastPunch.arm # "tcp"
            /\ \A i \in 1..Len(t) : t[i].port = lastPunch.nat.tcp_port
            /\ \A i, j \in 1..Len(t) : i < j => TcpRank(t[i]) < TcpRank(t[j])
            /\ tried \subseteq TcpRanks
            /\ \A i \in 1..Len(t) :
                 TcpRank(t[i]) = 3 => t[i].ip = lastPunch.nat.public_ips[1]
            /\ on /\ lastPunch.arm # "tcp" => tried = TcpRanks
            /\ lastPunch.arm = "tcp" =>
                 /\ t # <<>>
                 /\ tried = {r \in TcpRanks : r <= TcpRank(t[Len(t)])}
                 /\ lastPunch.udp = <<>>
                 /\ lastPunch.result = "Ok"

\* the peer's IPv6 and local IPv4 address refused, the connection to its
\* public address was made and handed over
C29_Witness ==
    /\ PunchRan
    /\ lastPunch.arm = "tcp"
    /\ Len(lastPunch.tcp) = 3
    /\ lastPunch.tcp[3] = Addr4(PeerPublicIp, 50001)
    /\ lastPunch.nat.nat_type = "Cone"

\* Punch::punch has reached the NatType::Cone arm
ConeArm == PunchRan /\ lastPunch.arm = "cone"

\* the rounds of the outer loop: min(public_ports.len(), channel_num)
ConeRounds ==
    IF Len(lastPunch.nat.public_ports) < cfg[lastPunch.node].channel_num
    THEN Len(lastPunch.nat.public_ports)
    ELSE cfg[lastPunch.node].channel_num

\* the pairs <<i, j>> of a port index and a place in public_ips within the
\* rounds whose port is not 0 and whose IP is not unspecified
ConePairs ==
    {<<i, j>> \in (0..(ConeRounds - 1)) \X (1..Len(lastPunch.nat.public_ips)) :
        /\ lastPunch.nat.public_ports[i + 1] # 0
        /\ lastPunch.nat.public_ips[j] # Ip(0, 0, 0, 0)}

\* the sends of the call from channel `chan` to the pair <<i, j>>
SendsTo(chan, pair) ==
    {k \in 1..Len(lastPunch.udp) :
        /\ lastPunch.udp[k].chan = chan
        /\ lastPunch.udp[k].addr.fam = 4
        /\ lastPunch.udp[k].addr.ip = lastPunch.nat.public_ips[pair[2]]
        /\ lastPunch.udp[k].addr.port = lastPunch.nat.public_ports[pair[1] + 1]}

\* the public IPv4 sends never go to port 0 or to the unspecified address,
\* and those of a Symmetric local node go through try_send_all to
\* public_ports[0] only
ConeSendsProper ==
    /\ \A k \in 1..Len(lastPunch.udp) :
         lastPunch.udp[k].addr.fam = 4 =>
            /\ lastPunch.udp[k].addr.port # 0
            /\ lastPunch.udp[k].addr.ip # Ip(0, 0, 0, 0)
    /\ ~cfg[lastPunch.node].is_cone =>
         \A k \in 1..Len(lastPunch.udp) :
            lastPunch.udp[k].addr.ip \in {lastPunch.nat.public_ips[j] :
                                            j \in 1..Len(lastPunch.nat.public_ips)} =>
               /\ lastPunch.udp[k].chan = AllChannels
               /\ lastPunch.udp[k].addr.port = lastPunch.nat.public_ports[1]

\* C30 as stated: against a Cone peer, a Cone local node sends exactly once
\* to each (public_ip, public_ports[i]) with i below min(public_ports.len(),
\* channel_num), from main channel i; a Symmetric local node uses
\* try_send_all once per public IP with public_ports[0] and no later port;
\* no send goes to port 0 or to an unspecified IP.
C30_ConeDispatch ==
    ConeArm =>
        /\ cfg[lastPunch.node].is_cone =>
              \A pair \in ConePairs : Cardinality(SendsTo(pair[1], pair)) = 1
        /\ ~cfg[lastPunch.node].is_cone =>
              \A pair \in ConePairs :
                 pair[1] = 0 => Cardinality(SendsTo(AllChannels, pair)) = 1
        /\ ConeSendsProper

\* C30, amended: the same, except that a send of a Cone local node that
\* returns an error ends the call with that error: the pairs up to and
\* including the failing one, in the order of the loops, have had their
\* one send from main channel i, the later ones none.
C30_ConeDispatchUntilError ==
    ConeArm =>
        /\ cfg[lastPunch.node].is_cone =>
              /\ \A pair \in ConePairs : Cardinality(SendsTo(pair[1], pair)) <= 1
              /\ lastPunch.result = "Ok" =>
                    \A pair \in ConePairs : Cardinality(SendsTo(pair[1], pair)) = 1
              /\ \A p, q \in ConePairs :
                    /\ p[1] < q[1] \/ (p[1] = q[1] /\ p[2] < q[2])
                    /\ SendsTo(q[1], q) # {}
                    => SendsTo(p[1], p) # {}
              /\ lastPunch.result = "Err" =>
                    \E pair \in ConePairs : Len(lastPunch.udp) \in SendsTo(pair[1], pair)
        /\ ~cfg[lastPunch.node].is_cone =>
              /\ lastPunch.result = "Ok"
              /\ \A pair \in ConePairs :
                    pair[1] = 0 => Cardinality(SendsTo(AllChannels, pair)) = 1
        /\ ConeSendsProper

\* a Cone node with two channels has sent to the first two of a Cone peer's
\* three public ports, from channel 0 and from channel 1
C30_Witness ==
    /\ ConeArm
    /\ cfg[lastPunch.node].is_cone
    /\ cfg[lastPunch.node].channel_num = 2
    /\ Len(lastPunch.nat.public_ports) = 3
    /\ lastPunch.result = "Ok"
    /\ Cardinality(ConePairs) = 2
    /\ \A pair \in ConePairs : Cardinality(SendsTo(pair[1], pair)) = 1

(***************************************************************************)
(* The broad phase of the NatType::Symmetric arm                           *)
(***************************************************************************)
\* a punch went through the broad phase to its end
BroadRan == lastPunch.arm = "symmetric" /\ lastPunch.result = "Ok"

\* where the phase started: the persisted index, 0 for a peer without one
BroadStart == IF lastPunch.before = NoIndex THEN 0 ELSE lastPunch.before

\* the part of port_vec one phase can take: max_k2 ports from the start on
BroadReach ==
    LET pv == portVec[lastPunch.node]
    IN  { pv[i] : i \in (BroadStart + 1)..Min(BroadStart + lastPunch.max_k2, Len(pv)) }

BroadPorts == { lastPunch.broad[i].addr.port : i \in 1..Len(lastPunch.broad) }

\* the ports of the slice the phase is through with: each of them was sent
\* to for every public IP (with no public IP, the whole slice)
BroadConsumed ==
    LET m == Len(lastPunch.nat.public_ips)
    IN  IF m = 0 THEN Cardinality(BroadReach) ELSE Len(lastPunch.broad) \div m

PortIndexValid ==
    \A n \in Nodes, w \in Workers :
        \A id \in DOMAIN portIndex[n][w] :
            portIndex[n][w][id] \in 0..(Len(portVec[n]) - 1)

BroadStep ==
    BroadRan =>
        LET len == Len(portVec[lastPunch.node])
            to == BroadStart + BroadConsumed
        IN  /\ BroadPorts \subseteq BroadReach
            /\ Cardinality(BroadPorts) <= lastPunch.max_k2
            /\ lastPunch.max_k2 \in Max_k2s
            /\ to <= len
            /\ lastPunch.after = (IF to = len THEN 0 ELSE to)
            /\ portIndex[lastPunch.node][lastPunch.worker][lastPunch.peer] = lastPunch.after

\* the phase reads the index the worker holds for the peer
BroadFromPersisted ==
    (lastPunch'.arm = "symmetric" /\ lastPunch'.result = "Ok")
    => lastPunch'.before =
          IndexOf(portIndex[lastPunch'.node][lastPunch'.worker], lastPunch'.peer)

\* C31: after any sequence of punches against Symmetric peers every
\* persisted port_index is a valid index into the shuffled port vector
\* (0 <= port_index < its length); a broad phase that runs to its end starts
\* at the persisted index, sends to at most max_k2 ports, all of them among
\* the max_k2 ports from the start on, and stores the index advanced by the
\* number of ports consumed, 0 when that reaches the end of the vector.
C31_PortIndex == [](PortIndexValid /\ BroadStep) /\ [][BroadFromPersisted]_vars

\* a second broad phase for the same peer started at a stored index above 0
\* and brought the index round to 0
C31_Witness ==
    /\ BroadRan
    /\ lastPunch.before > 0
    /\ lastPunch.after = 0
    /\ Len(lastPunch.broad) > 0

(***************************************************************************)
(* Successive broad phases of one punch worker for the same peer           *)
(***************************************************************************)
\* Symmetric profiles of peer B: one public IP, two, and none, with the
\* fine-range phase off (range 3 * max_k1)
BroadNats ==
    { NatInfo_new(NatArgs(ips, <<2>>, max_k1 * 3, NoIp, "none", <<>>, 0, "Symmetric")) :
        ips \in { <<PeerPublicIp>>, <<PeerPublicIp, PeerPublicIp2>>, <<>> } }

\* the addresses a punch sent to in its broad phase
BroadAddrs(rec) == { rec.broad[i].addr : i \in 1..Len(rec.broad) }

\* the record of what the broad phases have sent, after the punch `rec` over
\* the port vector pv: a punch that did not end its broad phase with Ok
\* leaves it as it is; the first phase after a wrap starts it anew
SweepNext(sw, rec, pv) ==
    IF ~(rec.arm = "symmetric" /\ rec.result = "Ok") THEN sw
    ELSE LET base == IF sw.wrapped THEN NoSweep ELSE sw
             m == Len(rec.nat.public_ips)
             start == IF rec.before = NoIndex THEN 0 ELSE rec.before
             taken == IF m = 0 THEN Min(rec.max_k2, Len(pv) - start)
                               ELSE Len(rec.broad) \div m
         IN  [ sent |-> base.sent \cup BroadAddrs(rec),
               again |-> base.sent \cap BroadAddrs(rec),
               clean |-> base.clean /\ m > 0,
               wrapped |-> start + taken >= Len(pv) ]

InitBroad ==
    /\ cfg = [n \in Nodes |-> DefaultCfg(n)]
    /\ rt = [n \in Nodes |-> {}]
    /\ stale = [n \in Nodes |-> {}]
    /\ portVec = [n \in Nodes |-> PortDescending]
    /\ portIndex = [n \in Nodes |-> [w \in Workers |-> <<>>]]
    /\ lastPunch = NoPunch
    /\ NatPinned
    /\ HsPinned
    /\ HandlerPinned
    /\ IdlePinned
    /\ ProxyPinned
    /\ NetPinned
    /\ finePhase = NoFine
    /\ sched = SchedStarted
    /\ gw = GwIdle(0)
    /\ req = NoReq
    /\ dom = NoDom
    /\ sweep = NoSweep
    /\ fineWin = NoWindow
    /\ tcpProxy = NoTcpProxy
    /\ proxyCall = NoProxyCall

\* punch_start: the worker of node A for Symmetric peers runs Punch::punch
\* for peer B once more
BroadCall ==
    \E nat \in BroadNats :
        /\ Punch(NodeA, WorkerFor(TRUE, nat.nat_type), NodeB, nat)
        /\ sweep' = SweepNext(sweep, lastPunch', portVec[NodeA])
        /\ UNCHANGED <<portVec, nodeVars, natVars, hsVars, handlerVars, idleVars,
                       proxyVars, netVars, finePhase, sched, gw, req, dom, fineWin, tcpProxy, proxyCall>>

NextBroad == BroadCall
SpecBroad == InitBroad /\ [][NextBroad]_vars

\* the positions of port_vec the phase went past: from its start to the
\* stored index, to the end of the vector when the index wrapped
BroadPassed ==
    LET len == Len(portVec[lastPunch.node])
    IN  (BroadStart + 1)..(IF sweep.wrapped THEN len ELSE lastPunch.after)

BroadIps == Range(lastPunch.nat.public_ips)

\* port_index moved on: it is higher than it was, or it wrapped
BroadAdvanced == lastPunch.after > BroadStart \/ sweep.wrapped

\* every port the index went past was sent to for every public IP
BroadNoSkip ==
    (BroadRan /\ BroadIps # {}) =>
        \A i \in BroadPassed : \A ip \in BroadIps :
            Addr4(ip, portVec[lastPunch.node][i]) \in BroadAddrs(lastPunch)

\* at the wrap every port of the vector has been sent to since the last one
BroadFullCycle ==
    (BroadRan /\ sweep.wrapped /\ sweep.clean) =>
        \A i \in 1..Len(portVec[lastPunch.node]) :
            \E a \in sweep.sent : a.port = portVec[lastPunch.node][i]

\* C32 as stated: across successive broad phases for the same Symmetric
\* peer on one worker (public IP list not empty, no send error) port_index
\* strictly advances and no port is skipped, every port between the old and
\* the new index having been sent to for every public IP, so that a full
\* cycle sends to every port of the vector before any port is sent to again.
C32_NoSkipNoRevisit ==
    /\ (BroadRan /\ BroadIps # {}) => BroadAdvanced
    /\ BroadNoSkip
    /\ (BroadRan /\ sweep.clean) => sweep.again = {}
    /\ BroadFullCycle

\* C32, amended: the index strictly advances when the peer has fewer public
\* IPs than max_k2; every port between the old and the new index was sent
\* to for every public IP; the addresses sent to again before the cycle is
\* complete are of the one port the phase starts at, which the phase before
\* left at after sending to it for some of the IPs only; at the wrap every
\* port of the vector has been sent to.
C32_NoSkipResumed ==
    /\ (BroadRan /\ BroadIps # {} /\ Len(lastPunch.nat.public_ips) < lastPunch.max_k2)
            => BroadAdvanced
    /\ BroadNoSkip
    /\ (BroadRan /\ sweep.clean) =>
            \A a \in sweep.again : a.port = portVec[lastPunch.node][BroadStart + 1]
    /\ BroadFullCycle

\* a later broad phase for a peer of two public IPs started above 0, went
\* past a port and completed the cycle
C32_Witness ==
    /\ BroadRan
    /\ Len(lastPunch.nat.public_ips) = 2
    /\ lastPunch.before > 0
    /\ sweep.wrapped
    /\ sweep.clean
    /\ Cardinality(sweep.sent) >= Len(portVec[lastPunch.node])

(***************************************************************************)
(* The fine-range phase at the width of the code: u16 ports, max_k1 = 60   *)
(***************************************************************************)
K1 == 60
U16_MAX == 65535
\* the Symmetric peer of scenario S2: its first public port and its range
S2 == [port |-> 50000, range |-> 12]

\* the first public ports tried: the low and the high end of u16 and the
\* port of scenario S2; every range that turns the phase on
WinEdge == 8
WinPorts == (0..WinEdge) \cup ((U16_MAX - WinEdge)..U16_MAX) \cup {S2.port}
WinRanges == 0..(K1 * 3 - 1)
WinIps == { <<PeerPublicIp>>, <<PeerPublicIp, PeerPublicIp2>> }

InitWindow ==
    /\ NatPinned
    /\ HsPinned
    /\ NodePinned
    /\ PunchPinned
    /\ HandlerPinned
    /\ IdlePinned
    /\ ProxyPinned
    /\ NetPinned
    /\ finePhase = NoFine
    /\ sched = SchedStarted
    /\ gw = GwIdle(0)
    /\ req = NoReq
    /\ dom = NoDom
    /\ sweep = NoSweep
    /\ \E pp \in {<<>>} \cup {<<p>> : p \in WinPorts}, r \in WinRanges, ips \in WinIps :
         fineWin = [NoWindow EXCEPT !.pc = "args", !.public_ports = pp,
                                    !.range = r, !.ips = ips]
    /\ tcpProxy = NoTcpProxy
    /\ proxyCall = NoProxyCall

\* lines 257-271 of Punch::punch: min_port, max_port, k and the candidate
\* vector; where max_port - min_port goes below zero a build with overflow
\* checks panics and one without goes on with the wrapped value
WindowCalc ==
    /\ fineWin.pc = "args"
    /\ LET pp == fineWin.public_ports
           port == IF Len(pp) > 0 THEN pp[1] ELSE 0
           w == FineWindowOf(port, fineWin.range, U16_MAX, K1)
           got == [fineWin EXCEPT !.min_port = w.min_port, !.max_port = w.max_port,
                                  !.under = w.under, !.k = w.k,
                                  !.len = IF w.max_port > w.min_port
                                          THEN w.max_port - w.min_port + 1 ELSE 1]
       IN  \/ fineWin' = [got EXCEPT !.pc = "window"]
           \/ /\ w.under
              /\ fineWin' = [got EXCEPT !.pc = "panic"]
    /\ UNCHANGED <<natVars, hsVars, nodeVars, punchVars, handlerVars, idleVars,
                   proxyVars, netVars, finePhase, sched, gw, req, dom, sweep, tcpProxy, proxyCall>>

\* two of the orders nums.shuffle can leave, cut to &nums[..k]
WinSlices(w) ==
    { [i \in 1..w.k |-> w.min_port + i - 1], [i \in 1..w.k |-> w.max_port - i + 1] }

\* lines 272-276: the shuffle and punch_symmetric over the slice, no send
\* failing, the first, or the last
WindowSend ==
    /\ fineWin.pc = "window"
    /\ \E slice \in WinSlices(fineWin) :
       \E failAt \in {0, 1, SymmetricBudget(slice, fineWin.ips, K1)} :
         LET r1 == punch_symmetric(slice, fineWin.ips, K1, failAt)
         IN  fineWin' = [fineWin EXCEPT !.pc = "sent", !.ports = slice,
                                        !.sends = r1.sends, !.err = r1.err]
    /\ UNCHANGED <<natVars, hsVars, nodeVars, punchVars, handlerVars, idleVars,
                   proxyVars, netVars, finePhase, sched, gw, req, dom, sweep, tcpProxy, proxyCall>>

NextWindow ==
    \/ WindowCalc
    \/ WindowSend

SpecWindow == InitWindow /\ [][NextWindow]_vars

\* C33: for every first public port P in 0..=65535 (0 for an empty list)
\* and every range R < 180 the 16-bit computations of min_port, max_port
\* and max_port - min_port + 1 neither underflow nor overflow, min_port <=
\* max_port, and the slice length k is at most the number of candidates.
C33_WindowArithmetic ==
    fineWin.pc \in {"window", "panic", "sent"} =>
        /\ ~fineWin.under
        /\ fineWin.min_port \in 0..U16_MAX
        /\ fineWin.max_port \in 0..U16_MAX
        /\ fineWin.min_port <= fineWin.max_port
        /\ fineWin.max_port - fineWin.min_port + 1 \in 0..U16_MAX
        /\ fineWin.k <= fineWin.len

\* the window [P-R, P+R] clamped to [1, 65535], from the claim's words
WinClamped ==
    LET pp == fineWin.public_ports
        P == IF Len(pp) > 0 THEN pp[1] ELSE 0
        lo == IF P - fineWin.range < 1 THEN 1 ELSE P - fineWin.range
        hi == IF P + fineWin.range > U16_MAX THEN U16_MAX ELSE P + fineWin.range
    IN  lo..hi

\* the fine-range phase ran to its end with no send failing
WinSent == fineWin.pc = "sent" /\ ~fineWin.err

WinAddrs == { fineWin.sends[i].addr : i \in 1..Len(fineWin.sends) }

\* the peer of scenario S2 with one public IP
WinIsS2 ==
    /\ fineWin.public_ports = <<S2.port>>
    /\ fineWin.range = S2.range
    /\ Len(fineWin.ips) = 1

\* C34 as stated: when R < 3 * k1 the fine-range phase sends the payload to
\* each of the drawn ports for each public IP, and for a peer with one public
\* IP, first port 50000 and range 12 exactly k1 = 60 packets are sent.
C34_FineSixty ==
    WinSent =>
        /\ \A i \in 1..Len(fineWin.ports) : \A ip \in Range(fineWin.ips) :
               Addr4(ip, fineWin.ports[i]) \in WinAddrs
        /\ WinIsS2 => Len(fineWin.sends) = K1

\* C34, amended: the phase draws k = min(k1, size of the clamped window)
\* different ports of the window and sends port by port, to each public IP
\* in turn, until k1 - 1 packets are out or the drawn ports are used up: no
\* packet where the window is empty, and exactly 25 for the peer of S2 with
\* one public IP.
C34_FineBudget ==
    /\ WinSent =>
        LET m == Len(fineWin.ips)
            k == Len(fineWin.ports)
            n == Len(fineWin.sends)
        IN  /\ k = Min(K1, Cardinality(WinClamped))
            /\ Range(fineWin.ports) \subseteq WinClamped
            /\ Cardinality(Range(fineWin.ports)) = k
            /\ n = Min(K1 - 1, k * m)
            /\ \A j \in 1..n :
                 /\ fineWin.sends[j].addr =
                       Addr4(fineWin.ips[((j - 1) % m) + 1],
                             fineWin.ports[((j - 1) \div m) + 1])
                 /\ fineWin.sends[j].chan = 0
            /\ WinIsS2 => n = 25
    /\ fineWin.pc = "panic" => (fineWin.sends = <<>> /\ WinClamped = {})

\* the phase ran for the peer of S2 and sent its 25 packets
C34_Witness ==
    /\ WinSent
    /\ WinIsS2
    /\ Len(fineWin.sends) = 25
    /\ Len(fineWin.ports) = 25

(***************************************************************************)
(* The TCP ip-proxy with one direction under load                          *)
(***************************************************************************)
\* the originator has BUF_LEN + 1 bytes waiting at its socket when the first
\* event of the pair is handled; the peer of the real destination is silent
InitFlow ==
    /\ tcp_map = [k \in {SrcFd} |-> ProxyValue_new(SrcFd, DestFd)]
    /\ mapping = [k \in {DestFd} |-> SrcFd]
    /\ sock = [fd \in Fds |->
                 IF fd = SrcFd
                 THEN [FreshSocket EXCEPT !.avail = BUF_LEN + 1, !.sent = BUF_LEN + 1]
                 ELSE FreshSocket]
    /\ px = AtPoll
    /\ pxClosed = NotClosed
    /\ NetPinned
    /\ MorePinned
    /\ NatPinned
    /\ HsPinned
    /\ NodePinned
    /\ PunchPinned
    /\ HandlerPinned
    /\ IdlePinned

NextFlow ==
    \/ ProxyPoll
    \/ ProxyRhRead
    \/ ProxyRhWrite
    \/ ProxyWh
    \/ ProxyFinish
    \/ PeerCloses

SpecFlow == InitFlow /\ [][NextFlow]_vars

\* neither buffer of a pair holds more than BUF_LEN bytes
BufWithinCap ==
    \A k \in DOMAIN tcp_map :
        /\ Len(tcp_map[k].src_buf) <= BUF_LEN
        /\ Len(tcp_map[k].dest_buf) <= BUF_LEN

\* readable_handle does not read while its buffer is at capacity
StopAtCap ==
    (px.pc = "rh" /\ Len(BufOf(CurrentValue, ReadingFd)) >= BUF_LEN)
    => /\ sock'[ReadingFd].nread = sock[ReadingFd].nread
       /\ px' # px => px'.pc # "rh"

\* a writable event that found the buffer at capacity and wrote without an
\* error goes on to read the opposite socket
ResumeAfterDrain ==
    (px.pc = "wh" /\ px.read /\ px'.pc # "wh")
    => \/ px'.pc = "rh" /\ px'.call = 2 /\ ReadingFd' = OtherFd(px.index)
       \/ /\ px'.pc = "finish"
          /\ px.index \in DOMAIN sock
          /\ sock'[px.index].wfail

\* C35: each per-direction buffer (src_buf, dest_buf) holds at most BUF_LEN
\* bytes; readable_handle stops reading while the buffer is at capacity, and
\* reading resumes once the opposite socket has become writable and
\* writable_handle has drained the buffer.
C35_BufferCap == []BufWithinCap /\ [][StopAtCap /\ ResumeAfterDrain]_vars

\* the tcpProxy thread, once poll has handed it an event, runs the handling
\* of the event to its end; what poll hands it, and when, is up to the peers
SpecFlowLive ==
    SpecFlow /\ WF_vars(ProxyRhRead \/ ProxyRhWrite \/ ProxyWh \/ ProxyFinish)

\* the pair is in tcp_map, and the side of fd is marked READ_CLOSED
ReadClosedSide(fd) ==
    /\ SrcFd \in DOMAIN tcp_map
    /\ is_read_closed(StateOf(tcp_map[SrcFd], fd))

\* a read at the end of the stream marks the side READ_CLOSED
MarkedAtEof ==
    (/\ px.pc = "rh"
     /\ px' # px
     /\ Len(BufOf(CurrentValue, ReadingFd)) < BUF_LEN
     /\ sock[ReadingFd].avail = 0
     /\ sock[ReadingFd].fin)
    => /\ SrcFd \in DOMAIN tcp_map'
       /\ is_read_closed(StateOf(tcp_map'[SrcFd], ReadingFd))

\* with the side of fd read-closed, the write half of the other socket is
\* shut down only with the buffer of the bytes read from fd empty
ShutOnlyDrained ==
    \A fd \in Fds :
        (/\ ReadClosedSide(fd)
         /\ ~is_write_closed(StateOf(tcp_map[SrcFd], OtherFd(fd)))
         /\ sock[OtherFd(fd)].wr_shut)
        => BufOf(tcp_map[SrcFd], fd) = <<>>

\* the side of the originator is read-closed and what was read from it has
\* all been written on
SrcDrained ==
    /\ ReadClosedSide(SrcFd)
    /\ BufOf(tcp_map[SrcFd], SrcFd) = <<>>
    /\ px.pc # "rw"

\* the end of the originator's stream has been passed on, or the pair is gone
SrcForwarded == sock[DestFd].wr_shut \/ SrcFd \notin DOMAIN tcp_map

\* C36: a read of zero bytes or a read error marks that side READ_CLOSED;
\* the write half of the other socket is shut down only once the buffer of
\* the bytes read from the closed side is empty, and it is shut down in the
\* end once that buffer has drained, also when a later writable event is
\* what drains it.
C36_HalfClose ==
    /\ [][MarkedAtEof]_vars
    /\ []ShutOnlyDrained
    /\ (SrcDrained ~> SrcForwarded)

\* the handling of an event in which a write on fd returned Ok(0) or an
\* error ends with the side of fd marked WRITE_CLOSED and the opposite
\* socket shut down for reading
WriteFailMarked ==
    \A fd \in Fds :
        (px.pc = "finish" /\ px'.pc = "poll" /\ sock[fd].wfail)
        => /\ sock'[OtherFd(fd)].rd_shut
           /\ SrcFd \in DOMAIN tcp_map' =>
                 is_write_closed(StateOf(tcp_map'[SrcFd], fd))

\* every turn of the loop of writable_handle takes bytes off the buffer or
\* leaves the loop
WhProgress ==
    (/\ px.pc = "wh"
     /\ \/ px' # px
        \/ tcp_map' # tcp_map
        \/ sock'[px.index].written # sock[px.index].written
        \/ sock'[px.index].wfail # sock[px.index].wfail)
    => \/ px'.pc # "wh"
       \/ Len(BufOf(tcp_map'[SrcFd], OtherFd(px.index)))
             < Len(BufOf(tcp_map[SrcFd], OtherFd(px.index)))

\* writable_handle is not in its loop after a write that failed
WhLoopLeft == px.pc = "wh" => ~sock[px.index].wfail

\* C37: a write that returns zero bytes or an error other than WouldBlock
\* marks the side of that socket WRITE_CLOSED and leads to the read shutdown
\* of the opposite socket, and the write loop terminates for every outcome
\* of the write, a write of zero bytes with bytes in the buffer included.
C37_WriteFailure == []WhLoopLeft /\ [][WriteFailMarked /\ WhProgress]_vars

\* C38: whenever close() removes a pair, every direction buffer that is not
\* empty holds bytes for a socket whose side is already WRITE_CLOSED: no pair
\* is removed while a buffer holds bytes for a socket that can still be
\* written.
C38_NoLiveBytesLost ==
    pxClosed # NotClosed =>
        \A fd \in Fds :
            BufOf(pxClosed, OtherFd(fd)) # <<>>
                => is_write_closed(StateOf(pxClosed, fd))

\* a pair was removed with bytes of the originator still in src_buf, the
\* side of the real destination being write-closed
C38_Witness ==
    /\ pxClosed # NotClosed
    /\ pxClosed.src_buf # <<>>
    /\ is_write_closed(pxClosed.dest_state)
    /\ SrcFd \notin DOMAIN tcp_map

\* ---- the NAT table of TcpProxy: recv_handle on TCP packets that arrive over
\* ---- the overlay for a destination behind node A, send_handle on TCP
\* ---- packets the stack of node A sends back

\* destinations behind node A, a host behind a peer, the source ports of the
\* originators, the ports of the real destinations, a service of node A
\* itself, and the port the listener of TcpProxy::new was given
Lan1 == Ip(192, 168, 1, 10)
Lan2 == Ip(192, 168, 1, 11)
LanPeer == Ip(192, 168, 2, 10)
SrcPorts == {50001, 50002}
DstPorts == {80}
LocalPorts == {22}
ListenerPorts == {40001}
MaxHandles == 3

\* an IPv4 packet with its TCP header; tcp is whether TcpPacket::new accepts
\* the payload
TcpIpv4(src_ip, sport, dst_ip, dport, tcp) ==
    [src_ip |-> src_ip, sport |-> sport, dst_ip |-> dst_ip, dport |-> dport, tcp |-> tcp]

\* recv_handle with the key taken from the packet instead of the overlay
recv_handle_InnerKey(self, ipv4, source, destination) ==
    IF ~ipv4.tcp
    THEN [ret |-> "Err", ipv4 |-> ipv4, nat_map |-> self.nat_map]
    ELSE [ ret |-> "false",
           ipv4 |-> [ipv4 EXCEPT !.dport = self.port, !.dst_ip = destination],
           nat_map |-> IndexPut(self.nat_map, Addr4(ipv4.src_ip, ipv4.sport),
                                Addr4(ipv4.dst_ip, ipv4.dport)) ]

\* TcpProxy::recv_handle: the packet, the return value and nat_map after it
recv_handle(self, ipv4, source, destination) ==
    IF ~ipv4.tcp
    THEN [ret |-> "Err", ipv4 |-> ipv4, nat_map |-> self.nat_map]
    ELSE [ ret |-> "false",
           ipv4 |-> [ipv4 EXCEPT !.dport = self.port, !.dst_ip = destination],
           nat_map |-> IndexPut(self.nat_map, Addr4(source, ipv4.sport),
                                Addr4(ipv4.dst_ip, ipv4.dport)) ]

\* TcpProxy::send_handle: the packet and the return value after it
send_handle(self, ipv4) ==
    IF ~ipv4.tcp
    THEN [ret |-> "Err", ipv4 |-> ipv4]
    ELSE LET dest_addr == Addr4(ipv4.dst_ip, ipv4.dport)
         IN  IF dest_addr \in DOMAIN self.nat_map
             THEN LET source_addr == self.nat_map[dest_addr]
                  IN  [ ret |-> "Ok",
                        ipv4 |-> [ipv4 EXCEPT !.sport = source_addr.port,
                                              !.src_ip = source_addr.ip] ]
             ELSE [ret |-> "Ok", ipv4 |-> ipv4]

NatOthers == <<natVars, hsVars, nodeVars, punchVars, handlerVars, idleVars, netVars, finePhase, sched, gw, req, dom, sweep, fineWin>>

InitNatMap ==
    /\ NatPinned
    /\ HsPinned
    /\ NodePinned
    /\ PunchPinned
    /\ HandlerPinned
    /\ IdlePinned
    /\ ProxyPinned
    /\ NetPinned
    /\ finePhase = NoFine
    /\ sched = SchedStarted
    /\ gw = GwIdle(0)
    /\ req = NoReq
    /\ dom = NoDom
    /\ sweep = NoSweep
    /\ fineWin = NoWindow
    /\ \E p \in ListenerPorts : tcpProxy = [port |-> p, nat_map |-> <<>>]
    /\ proxyCall = NoProxyCall

\* the packets client.rs hands to recv_handle: from a peer of the overlay to
\* node A, the destination of the packet not being node A itself
RecvPackets(source) ==
    {TcpIpv4(src, sp, d, dp, TRUE) :
        src \in {source, LanPeer}, sp \in SrcPorts, d \in {Lan1, Lan2}, dp \in DstPorts}
    \cup {TcpIpv4(source, 0, Lan1, 0, FALSE)}

\* the packets node A sends to a peer of the overlay: from the listener of
\* the proxy or from a service of node A
SendPackets ==
    {TcpIpv4(NodeA, sp, d, dp, TRUE) :
        sp \in ListenerPorts \cup LocalPorts, d \in {NodeB, NodeC}, dp \in SrcPorts}
    \cup {TcpIpv4(NodeA, 0, NodeB, 0, FALSE)}

\* client.rs line 145: recv_handle on a packet of the overlay
RecvFrom(sources) ==
    /\ \E source \in sources : \E ipv4 \in RecvPackets(source) :
         LET r == recv_handle(tcpProxy, ipv4, source, NodeA)
         IN  /\ tcpProxy' = [tcpProxy EXCEPT !.nat_map = r.nat_map]
             /\ proxyCall' =
                  [proxyCall EXCEPT
                     !.op = "recv", !.source = source, !.destination = NodeA,
                     !.in = ipv4, !.out = r.ipv4, !.ret = r.ret,
                     !.log = Append(@, [ op |-> "recv", tcp |-> ipv4.tcp,
                                         key |-> Addr4(source, ipv4.sport),
                                         val |-> Addr4(ipv4.dst_ip, ipv4.dport) ])]
    /\ UNCHANGED <<NatOthers, proxyVars>>

\* the packets of two peers, MaxHandles calls in all
NatRecv == Len(proxyCall.log) < MaxHandles /\ RecvFrom({NodeB, NodeC})

\* send_handle on a packet node A sends
NatSend ==
    /\ Len(proxyCall.log) < MaxHandles
    /\ \E ipv4 \in SendPackets :
         LET r == send_handle(tcpProxy, ipv4)
         IN  proxyCall' =
               [proxyCall EXCEPT
                  !.op = "send", !.source = <<>>, !.destination = <<>>,
                  !.in = ipv4, !.out = r.ipv4, !.ret = r.ret,
                  !.log = Append(@, [ op |-> "send", tcp |-> ipv4.tcp,
                                      key |-> Addr4(ipv4.dst_ip, ipv4.dport),
                                      val |-> <<>> ])]
    /\ UNCHANGED <<NatOthers, proxyVars, tcpProxy>>

NextNatMap ==
    \/ NatRecv
    \/ NatSend

SpecNatMap == InitNatMap /\ [][NextNatMap]_vars

\* the calls of recv_handle on a TCP packet from (s, sp), the latest last
RecvsOf(k) ==
    {i \in DOMAIN proxyCall.log :
        /\ proxyCall.log[i].op = "recv"
        /\ proxyCall.log[i].tcp
        /\ proxyCall.log[i].key = k}

\* the inner destination the latest of them carried
LatestDest(k) ==
    LET i == CHOOSE i \in RecvsOf(k) : \A j \in RecvsOf(k) : j <= i
    IN  proxyCall.log[i].val

RecvRewrites ==
    (proxyCall.op = "recv" /\ proxyCall.in.tcp) =>
        LET in == proxyCall.in
            key == Addr4(proxyCall.source, in.sport)
        IN  /\ proxyCall.ret = "false"
            /\ proxyCall.out = [in EXCEPT !.dst_ip = proxyCall.destination,
                                          !.dport = tcpProxy.port]
            /\ key \in DOMAIN tcpProxy.nat_map
            /\ tcpProxy.nat_map[key] = Addr4(in.dst_ip, in.dport)

SendRestores ==
    (proxyCall.op = "send" /\ proxyCall.in.tcp) =>
        LET in == proxyCall.in
            k == Addr4(in.dst_ip, in.dport)
        IN  /\ proxyCall.ret = "Ok"
            /\ RecvsOf(k) # {} =>
                  proxyCall.out = [in EXCEPT !.src_ip = LatestDest(k).ip,
                                             !.sport = LatestDest(k).port]
            /\ RecvsOf(k) = {} => proxyCall.out = in

\* C39: recv_handle on a TCP packet from overlay source s with source port sp
\* and inner destination d:dp rewrites the inner destination to the overlay
\* destination and the listener port, records nat_map[(s, sp)] = (d, dp) and
\* returns false; send_handle on a packet destined to (s, sp) afterwards
\* rewrites its source to exactly (d, dp), the d:dp of the latest such
\* recv_handle, and leaves a packet with no matching entry as it was.
C39_NatRoundTrip == RecvRewrites /\ SendRestores

\* a packet of a host behind B was recorded under B, the same source port was
\* then recorded for B itself with another destination, and the listener's
\* answer to B left with the source of the latest one
C39_Witness ==
    /\ proxyCall.op = "send"
    /\ Len(proxyCall.log) = 3
    /\ proxyCall.log[1].op = "recv"
    /\ proxyCall.log[2].op = "recv"
    /\ proxyCall.log[1].key = proxyCall.log[2].key
    /\ proxyCall.log[1].val # proxyCall.log[2].val
    /\ proxyCall.in.dst_ip = NodeB
    /\ proxyCall.in.sport \in ListenerPorts
    /\ proxyCall.out.src_ip = Lan2
    /\ proxyCall.out.sport \in DstPorts
    /\ proxyCall.out # proxyCall.in

\* ---- one proxied flow from recv_handle over accept_handle to close: the
\* ---- originator's packet is recorded, the listener accepts its connection,
\* ---- the pair is ferried to its end and torn down

MaxFlows == 1

\* the peer addresses the listener can see on accept: the inner source of a
\* packet recv_handle let through to the stack
AcceptAddrs ==
    UNION {{Addr4(k.ip, k.port), Addr4(LanPeer, k.port)} : k \in DOMAIN tcpProxy.nat_map}

\* accept_handle taking the entry out of nat_map as it looks it up
NatAccept_Consumes ==
    /\ px.pc = "poll"
    /\ tcp_map = <<>>
    /\ pxClosed = NotClosed
    /\ \E addr \in AcceptAddrs, connected \in BOOLEAN :
         IF addr \in DOMAIN tcpProxy.nat_map /\ connected
         THEN /\ tcp_map' = [k \in {SrcFd} |-> ProxyValue_new(SrcFd, DestFd)]
              /\ mapping' = [k \in {DestFd} |-> SrcFd]
              /\ sock' = [fd \in Fds |->
                            IF fd = SrcFd
                            THEN [FreshSocket EXCEPT !.avail = 1, !.sent = 1]
                            ELSE FreshSocket]
              /\ proxyCall' = [proxyCall EXCEPT !.op = "accept", !.ret = "Ok",
                                                !.flow = addr]
              /\ tcpProxy' = [tcpProxy EXCEPT !.nat_map =
                                [k \in DOMAIN @ \ {addr} |-> @[k]]]
         ELSE /\ proxyCall' = [proxyCall EXCEPT !.op = "accept", !.ret = "dropped"]
              /\ UNCHANGED <<tcp_map, mapping, sock, tcpProxy>>
    /\ UNCHANGED <<NatOthers, px, pxClosed>>

\* accept_handle on one connection of the listener: the lookup of its peer
\* address in nat_map, tcp_connect to the recorded destination, and the pair
\* put in tcp_map and mapping, the originator's first byte waiting
NatAccept ==
    /\ px.pc = "poll"
    /\ tcp_map = <<>>
    /\ pxClosed = NotClosed
    /\ \E addr \in AcceptAddrs, connected \in BOOLEAN :
         IF addr \in DOMAIN tcpProxy.nat_map /\ connected
         THEN /\ tcp_map' = [k \in {SrcFd} |-> ProxyValue_new(SrcFd, DestFd)]
              /\ mapping' = [k \in {DestFd} |-> SrcFd]
              /\ sock' = [fd \in Fds |->
                            IF fd = SrcFd
                            THEN [FreshSocket EXCEPT !.avail = 1, !.sent = 1]
                            ELSE FreshSocket]
              /\ proxyCall' = [proxyCall EXCEPT !.op = "accept", !.ret = "Ok",
                                                !.flow = addr]
         ELSE /\ proxyCall' = [proxyCall EXCEPT !.op = "accept", !.ret = "dropped"]
              /\ UNCHANGED <<tcp_map, mapping, sock>>
    /\ UNCHANGED <<NatOthers, px, pxClosed, tcpProxy>>

\* recv_handle on the packets of the flows of this node
FlowRecv == Len(proxyCall.log) < MaxFlows /\ RecvFrom({NodeB})

NextTeardown ==
    \/ FlowRecv
    \/ NatAccept
    \/ ProxyPoll
    \/ ProxyRhRead
    \/ ProxyRhWrite
    \/ ProxyWh
    \/ ProxyFinish
    \/ PeerCloses

SpecTeardown == InitNatMap /\ [][NextTeardown]_vars

\* close() has run on the pair of the flow
TornDown == pxClosed # NotClosed

\* the flow has a pair in tcp_map, or waits for accept_handle
FlowLive(k) == proxyCall.flow = k /\ SrcFd \in DOMAIN tcp_map
FlowPending(k) == proxyCall.flow # k

\* C40 as stated: after both ends of a proxied flow have half-closed and the
\* pair has been torn down, the flow's (overlay-source-ip, source-port) entry
\* is gone from nat_map, and nat_map holds entries only for flows that are
\* pending or live.
C40_EntryRemoved ==
    /\ TornDown => proxyCall.flow \notin DOMAIN tcpProxy.nat_map
    /\ \A k \in DOMAIN tcpProxy.nat_map : FlowPending(k) \/ FlowLive(k)

\* C40 amended: after both ends of a proxied flow have half-closed and the
\* pair has been torn down, the pair is gone from tcp_map and both its
\* tokens from mapping, both sockets are shut down in both directions, and
\* the flow's (overlay-source-ip, source-port) key is still in nat_map.
C40_PairRemovedEntryKept ==
    TornDown =>
        /\ SrcFd \notin DOMAIN tcp_map
        /\ DOMAIN mapping \cap Fds = {}
        /\ \A fd \in Fds : sock[fd].rd_shut /\ sock[fd].wr_shut
        /\ proxyCall.flow \in DOMAIN tcpProxy.nat_map

\* the flow of B's port to Lan1 was accepted and ferried, both peers closed,
\* and close() has removed the pair
C40_Witness ==
    /\ TornDown
    /\ proxyCall.flow = Addr4(NodeB, 50001)
    /\ tcpProxy.nat_map[proxyCall.flow] = Addr4(Lan1, 80)
    /\ tcp_map = <<>>
    /\ sock[DestFd].written # <<>>
    /\ \A fd \in Fds : sock[fd].fin
    /\ is_read_closed(pxClosed.src_state)
    /\ is_read_closed(pxClosed.dest_state)

====
